---- MODULE Spec2Model ----
(***************************************************************************)
(* A model of the pinball physics engine (js/physics.js) and of the table  *)
(* elements (js/elements.js).                                              *)
(*                                                                         *)
(* Numbers.  The program computes with JavaScript numbers.  The model      *)
(* stores every length, velocity, angle and charge level as an integer     *)
(* count of thousandths (Scale), so 0.3 is 300 and 0.99 is 990.  A         *)
(* product or quotient that is not a whole number of thousandths is        *)
(* truncated toward zero.  The element specifications draw their inputs    *)
(* from sets on which the element's own arithmetic (square root, division) *)
(* is exact, so that what is checked there is the arithmetic of the code   *)
(* over the reals and not an artefact of the resolution.                   *)
(***************************************************************************)
EXTENDS Integers, Sequences, FiniteSets, TLC

VARIABLES
    balls,      \* Ball objects: BallIds -> [x, y, vx, vy, radius, active, isHeld]
    kicker,     \* the Kicker object
    rollover,   \* the Rollover object
    flipper,    \* the Flipper object
    plunger,    \* the Plunger object
    bumper,     \* the Bumper object
    slingshot,  \* the Slingshot object
    target,     \* the Target object
    spinner,    \* the Spinner object
    game,       \* the Game object (the session and the table it owns)
    ret,        \* the value returned by the last call
    last,       \* the last call made: [op, arg]
    hist        \* history of the calls made so far (a record, see each Init)

vars == <<balls, kicker, rollover, flipper, plunger, bumper, slingshot, target,
          spinner, game, ret, last, hist>>

\* ------------------------------------------------------------------------
\* Values returned by a call
\* ------------------------------------------------------------------------

\* a call that returns nothing
RetNone == [kind |-> "undefined", value |-> 0, velocity |-> 0, power |-> 0]

\* a call that returns the number n
RetNum(n) == [kind |-> "number", value |-> n, velocity |-> 0, power |-> 0]

\* a call that returns the object {velocity: v, power: p}
RetObj(v, p) == [kind |-> "object", value |-> 0, velocity |-> v, power |-> p]

\* a call that returns true or false
RetBool(b) ==
    [kind |-> "boolean", value |-> IF b THEN 1 ELSE 0, velocity |-> 0, power |-> 0]

\* the call made last
Call(op, arg) == [op |-> op, arg |-> arg]

\* ------------------------------------------------------------------------
\* Fixed-point arithmetic
\* ------------------------------------------------------------------------

\* thousandths
Scale == 10 * 10 * 10

Abs(a) == IF a < 0 THEN -a ELSE a

Sign(a) == IF a > 0 THEN 1 ELSE IF a < 0 THEN -1 ELSE 0

Min(a, b) == IF a <= b THEN a ELSE b

Max(a, b) == IF a >= b THEN a ELSE b

\* a / b truncated toward zero, b > 0
TruncDiv(a, b) == IF a >= 0 THEN a \div b ELSE -((-a) \div b)

\* the product of two fixed-point numbers
MulQ(a, b) == TruncDiv(a * b, Scale)

\* the quotient of two fixed-point numbers, b # 0
DivQ(a, b) == IF b > 0 THEN TruncDiv(a * Scale, b) ELSE -TruncDiv(a * Scale, -b)

RECURSIVE IsqrtIter(_, _, _)
IsqrtIter(n, lo, hi) ==
    IF lo >= hi THEN lo
    ELSE LET mid == (lo + hi + 1) \div 2
         IN  IF mid * mid <= n THEN IsqrtIter(n, mid, hi)
                               ELSE IsqrtIter(n, lo, mid - 1)

\* floor of the square root, 0 <= n < 2^31
Isqrt(n) == IsqrtIter(n, 0, 46340)

\* ------------------------------------------------------------------------
\* physics.js: constants and vector helpers
\* ------------------------------------------------------------------------

gravity == 300

friction == 990

bounciness == 700

maxSpeed == 20000

minSpeed == 100

\* x * x + y * y as <<millions, rest>>, for arguments whose squares do not
\* fit in 31 bits (|x|, |y| < 10^6)
SquareParts(x) ==
    LET h == Abs(x) \div 1000
        l == Abs(x) % 1000
    IN  <<h * h, 2 * h * l, l * l>>

SumOfSquares(x, y) ==
    LET p == SquareParts(x)
        q == SquareParts(y)
        rest == ((p[2] + q[2]) % 1000) * 1000 + p[3] + q[3]
    IN  <<p[1] + q[1] + (p[2] + q[2]) \div 1000 + rest \div 1000000,
          rest % 1000000>>

RECURSIVE WideIsqrtIter(_, _, _)
WideIsqrtIter(n, lo, hi) ==
    IF lo >= hi THEN lo
    ELSE LET mid == (lo + hi + 1) \div 2
             sq == SumOfSquares(mid, 0)
         IN  IF sq[1] < n[1] \/ (sq[1] = n[1] /\ sq[2] <= n[2])
             THEN WideIsqrtIter(n, mid, hi)
             ELSE WideIsqrtIter(n, lo, mid - 1)

\* Math.sqrt(x * x + y * y), rounded down; both arguments are in thousandths,
\* and so is the result
magnitude(x, y) ==
    IF Abs(x) <= 32767 /\ Abs(y) <= 32767
    THEN Isqrt(x * x + y * y)
    ELSE WideIsqrtIter(SumOfSquares(x, y), Max(Abs(x), Abs(y)), Abs(x) + Abs(y))

\* ------------------------------------------------------------------------
\* physics.js: Ball
\* ------------------------------------------------------------------------

NoBounds == [x |-> 0, y |-> 0, width |-> 0, height |-> 0]

\* new Ball(x, y, radius)
NewBall(x, y, radius) ==
    [x |-> x, y |-> y, vx |-> 0, vy |-> 0, radius |-> radius,
     active |-> TRUE, isHeld |-> FALSE]

\* Ball.checkBounds(bounds), bounds = [x, y, width, height]
checkBounds(b, bounds) ==
    LET minX == bounds.x + b.radius
        maxX == bounds.x + bounds.width - b.radius
        minY == bounds.y + b.radius
        maxY == bounds.y + bounds.height - b.radius
        b1 == IF b.x < minX
              THEN [b EXCEPT !.x = minX, !.vx = MulQ(-b.vx, bounciness)] ELSE b
        b2 == IF b1.x > maxX
              THEN [b1 EXCEPT !.x = maxX, !.vx = MulQ(-b1.vx, bounciness)] ELSE b1
        b3 == IF b2.y < minY
              THEN [b2 EXCEPT !.y = minY, !.vy = MulQ(-b2.vy, bounciness)] ELSE b2
        b4 == IF b3.y > maxY
              THEN [b3 EXCEPT !.y = maxY, !.vy = MulQ(-b3.vy, bounciness)] ELSE b3
    IN  b4

\* Ball.update(bounds): the ball after one integration step.  The only flag
\* the method reads is active.
BallUpdate(b, bounds) ==
    IF ~b.active THEN b
    ELSE LET vy1 == b.vy + gravity
             vx2 == MulQ(b.vx, friction)
             vy2 == MulQ(vy1, friction)
             speed == magnitude(vx2, vy2)
             \* v * (maxSpeed / speed), the quotient kept at full resolution
             vx3 == IF speed > maxSpeed THEN TruncDiv(vx2 * maxSpeed, speed) ELSE vx2
             vy3 == IF speed > maxSpeed THEN TruncDiv(vy2 * maxSpeed, speed) ELSE vy2
             vx4 == IF Abs(vx3) < minSpeed THEN 0 ELSE vx3
             vy4 == IF Abs(vy3) < minSpeed THEN 0 ELSE vy3
             moved == [b EXCEPT !.vx = vx4, !.vy = vy4,
                                !.x = b.x + vx4, !.y = b.y + vy4]
         IN  IF bounds = NoBounds THEN moved ELSE checkBounds(moved, bounds)

\* ------------------------------------------------------------------------
\* Angles
\* ------------------------------------------------------------------------

\* Math.PI
Pi == 3142

\* the angles a kicker is built with: -PI/2 (the default) and -PI/6
EjectAngles == {-1571, -524}

\* Math.cos and Math.sin: exact on the angles a kicker is built with, and the
\* Taylor polynomial, good to a few thousandths, on the angles a flipper
\* turns through (-PI/2 to 3PI/2)
Cos(a) ==
    LET series(x, x2, x4) ==
            Scale - x2 \div 2 + x4 \div 24 - MulQ(x4, x2) \div 720
               + MulQ(x4, x4) \div 40320
        poly(x, x2) == series(x, x2, MulQ(x2, x2))
    IN  CASE a = 0 -> 1000
          [] a = -1571 -> 0
          [] a = -524 -> 866
          [] OTHER -> IF 2 * a > Pi THEN -poly(a - Pi, MulQ(a - Pi, a - Pi))
                                    ELSE poly(a, MulQ(a, a))

Sin(a) ==
    LET series(x, x2, x3) ==
            x - TruncDiv(x3, 6) + TruncDiv(MulQ(x3, x2), 120)
              - TruncDiv(MulQ(MulQ(x3, x2), x2), 5040)
        poly(x, x2) == series(x, x2, MulQ(x2, x))
    IN  CASE a = 0 -> 0
          [] a = -1571 -> -1000
          [] a = -524 -> -500
          [] OTHER -> IF 2 * a > Pi THEN -poly(a - Pi, MulQ(a - Pi, a - Pi))
                                    ELSE poly(a, MulQ(a, a))

\* ------------------------------------------------------------------------
\* elements.js: Kicker
\* ------------------------------------------------------------------------

BallIds == {1, 2}

\* capturedBall = null
NoBall == 0

KickerHoldDuration == 60

KickerEjectForce == 15000

KickerPoints == 500

\* new Kicker(x, y, radius, ejectAngle)
NewKicker(x, y, radius, ejectAngle) ==
    [x |-> x, y |-> y, radius |-> radius, ejectAngle |-> ejectAngle,
     ejectForce |-> KickerEjectForce, points |-> KickerPoints,
     hasBall |-> FALSE, holdTimer |-> 0, holdDuration |-> KickerHoldDuration,
     capturedBall |-> NoBall]

\* as KickerCaptures, also while the kicker holds a ball
KickerCaptures_AlsoWhileHolding(k, b) ==
    magnitude(b.x - k.x, b.y - k.y) < k.radius

\* the test of Kicker.checkCollision: the kicker is empty and the ball's
\* centre is closer than the kicker's radius
KickerCaptures(k, b) ==
    /\ ~k.hasBall
    /\ magnitude(b.x - k.x, b.y - k.y) < k.radius

\* Kicker.checkCollision(ball): the kicker afterwards
KickerAfterCheck(k, i, b) ==
    IF KickerCaptures(k, b)
    THEN [k EXCEPT !.hasBall = TRUE, !.holdTimer = k.holdDuration,
                   !.capturedBall = i]
    ELSE k

\* as BallAfterKickerCheck, leaving the ball where it was caught
BallAfterKickerCheck_NotCentred(k, b) ==
    IF KickerCaptures(k, b)
    THEN [b EXCEPT !.vx = 0, !.vy = 0, !.isHeld = TRUE]
    ELSE b

\* Kicker.checkCollision(ball): the ball afterwards
BallAfterKickerCheck(k, b) ==
    IF KickerCaptures(k, b)
    THEN [b EXCEPT !.vx = 0, !.vy = 0, !.x = k.x, !.y = k.y, !.isHeld = TRUE]
    ELSE b

\* Kicker.checkCollision(ball): the value returned
KickerCheckResult(k, b) == IF KickerCaptures(k, b) THEN k.points ELSE 0

\* as KickerAfterEject, keeping the reference to the ball
KickerAfterEject_KeepsReference(k) == [k EXCEPT !.hasBall = FALSE]

\* Kicker.ejectBall(): the kicker afterwards
KickerAfterEject(k) == [k EXCEPT !.capturedBall = NoBall, !.hasBall = FALSE]

\* Kicker.ejectBall(): the balls afterwards
BallsAfterEject(k, bs) ==
    IF k.capturedBall # NoBall
    THEN [bs EXCEPT ![k.capturedBall] =
             [@ EXCEPT !.vx = MulQ(Cos(k.ejectAngle), k.ejectForce),
                       !.vy = MulQ(Sin(k.ejectAngle), k.ejectForce),
                       !.isHeld = FALSE]]
    ELSE bs

\* Kicker.update() counts the hold timer down and ejects when it reaches 0
\* (pulsePhase is read by draw() only and is not modelled)
KickerTicks(k) == k.hasBall /\ k.holdTimer > 0

\* as KickerAfterUpdate, ejecting when the timer reaches 1
KickerAfterUpdate_EjectsOneEarly(k) ==
    IF KickerTicks(k)
    THEN LET k1 == [k EXCEPT !.holdTimer = k.holdTimer - 1]
         IN  IF k1.holdTimer <= 1 THEN KickerAfterEject(k1) ELSE k1
    ELSE k

KickerAfterUpdate(k) ==
    IF KickerTicks(k)
    THEN LET k1 == [k EXCEPT !.holdTimer = k.holdTimer - 1]
         IN  IF k1.holdTimer = 0 THEN KickerAfterEject(k1) ELSE k1
    ELSE k

BallsAfterKickerUpdate(k, bs) ==
    IF KickerTicks(k) /\ k.holdTimer - 1 = 0
    THEN BallsAfterEject([k EXCEPT !.holdTimer = 0], bs)
    ELSE bs

\* ------------------------------------------------------------------------
\* elements.js: Rollover
\* ------------------------------------------------------------------------

RolloverTriggerDuration == 15

RolloverPoints == 100

\* new Rollover(x, y, width, height)
NewRollover(x, y, width, height) ==
    [x |-> x, y |-> y, width |-> width, height |-> height,
     points |-> RolloverPoints, isLit |-> FALSE, wasTriggered |-> FALSE,
     triggerTimer |-> 0, triggerDuration |-> RolloverTriggerDuration]

\* the test of Rollover.checkCollision: the ball's centre is over the lane
RolloverOver(r, b) ==
    /\ b.x > r.x
    /\ b.x < r.x + r.width
    /\ b.y > r.y
    /\ b.y < r.y + r.height

\* as RolloverAfterCheck, never re-arming when the ball is off the lane
RolloverAfterCheck_NoRearm(r, b) ==
    IF RolloverOver(r, b)
    THEN IF ~r.wasTriggered
         THEN [r EXCEPT !.wasTriggered = TRUE, !.isLit = TRUE,
                        !.triggerTimer = r.triggerDuration]
         ELSE r
    ELSE r

\* Rollover.checkCollision(ball): the rollover afterwards
RolloverAfterCheck(r, b) ==
    IF RolloverOver(r, b)
    THEN IF ~r.wasTriggered
         THEN [r EXCEPT !.wasTriggered = TRUE, !.isLit = TRUE,
                        !.triggerTimer = r.triggerDuration]
         ELSE r
    ELSE [r EXCEPT !.wasTriggered = FALSE]

\* Rollover.checkCollision(ball): the value returned
RolloverCheckResult(r, b) ==
    IF RolloverOver(r, b) /\ ~r.wasTriggered THEN r.points ELSE 0

\* Rollover.update()
RolloverAfterUpdate(r) ==
    IF r.triggerTimer > 0 THEN [r EXCEPT !.triggerTimer = r.triggerTimer - 1] ELSE r

\* Rollover.reset()
RolloverAfterReset(r) == [r EXCEPT !.isLit = FALSE, !.wasTriggered = FALSE]

\* ------------------------------------------------------------------------
\* elements.js: Flipper
\* ------------------------------------------------------------------------

FlipperSides == {"left", "right"}

\* Math.PI / 6
PiOver6 == 524

FlipperFlipSpeed == 400

FlipperReturnSpeed == 200

\* the distance to the target below which update() snaps to it
FlipperSnap == 10

FlipperMaxAngularVelocity == 500

FlipperBounceFactor == 1500

\* new Flipper(x, y, width, height, side)
NewFlipper(x, y, width, height, side) ==
    LET rest == IF side = "left" THEN PiOver6 ELSE Pi - PiOver6
        active == IF side = "left" THEN -PiOver6 ELSE Pi + PiOver6
    IN  [x |-> x, y |-> y, width |-> width, height |-> height, side |-> side,
         angle |-> rest, angularVelocity |-> 0,
         maxAngularVelocity |-> FlipperMaxAngularVelocity,
         restAngle |-> rest, activeAngle |-> active, isActivated |-> FALSE,
         flipSpeed |-> FlipperFlipSpeed, returnSpeed |-> FlipperReturnSpeed,
         bounceFactor |-> FlipperBounceFactor]

\* Flipper.activate()
FlipperAfterActivate(f) == [f EXCEPT !.isActivated = TRUE]

\* Flipper.deactivate()
FlipperAfterDeactivate(f) == [f EXCEPT !.isActivated = FALSE]

\* the target angle the activated flag selects
FlipperTarget(f) == IF f.isActivated THEN f.activeAngle ELSE f.restAngle

\* as FlipperAfterUpdate, returning to rest at the speed of a flip
FlipperAfterUpdate_ReturnsAtFlipSpeed(f) ==
    LET targetAngle == FlipperTarget(f)
        angleDiff == targetAngle - f.angle
        step == Sign(angleDiff) * Min(Abs(angleDiff), f.flipSpeed)
    IN  IF Abs(angleDiff) > FlipperSnap
        THEN [f EXCEPT !.angularVelocity = step, !.angle = f.angle + step]
        ELSE [f EXCEPT !.angle = targetAngle, !.angularVelocity = 0]

\* as FlipperAfterUpdate, always stepping by the full speed
FlipperAfterUpdate_FullStep(f) ==
    LET targetAngle == FlipperTarget(f)
        speed == IF f.isActivated THEN f.flipSpeed ELSE f.returnSpeed
        angleDiff == targetAngle - f.angle
        step == Sign(angleDiff) * speed
    IN  IF Abs(angleDiff) > FlipperSnap
        THEN [f EXCEPT !.angularVelocity = step, !.angle = f.angle + step]
        ELSE [f EXCEPT !.angle = targetAngle, !.angularVelocity = 0]

\* as FlipperAfterUpdate, keeping the angular velocity when it snaps
FlipperAfterUpdate_KeepsVelocity(f) ==
    LET targetAngle == FlipperTarget(f)
        speed == IF f.isActivated THEN f.flipSpeed ELSE f.returnSpeed
        angleDiff == targetAngle - f.angle
        step == Sign(angleDiff) * Min(Abs(angleDiff), speed)
    IN  IF Abs(angleDiff) > FlipperSnap
        THEN [f EXCEPT !.angularVelocity = step, !.angle = f.angle + step]
        ELSE [f EXCEPT !.angle = targetAngle]

\* Flipper.update()
FlipperAfterUpdate(f) ==
    LET targetAngle == FlipperTarget(f)
        speed == IF f.isActivated THEN f.flipSpeed ELSE f.returnSpeed
        angleDiff == targetAngle - f.angle
        step == Sign(angleDiff) * Min(Abs(angleDiff), speed)
    IN  IF Abs(angleDiff) > FlipperSnap
        THEN [f EXCEPT !.angularVelocity = step, !.angle = f.angle + step]
        ELSE [f EXCEPT !.angle = targetAngle, !.angularVelocity = 0]

FlipperForceThreshold == 100

FlipperLift == 500

FlipperEnergyKept == 900

\* Flipper.getCorners(): pivot top, pivot bottom, end bottom, end top
FlipperCorners(f) ==
    LET corner(cx, cy, cos, sin) ==
            [x |-> f.x + MulQ(cx, cos) - MulQ(cy, sin),
             y |-> f.y + MulQ(cx, sin) + MulQ(cy, cos)]
        corners(w, halfHeight, cos, sin) ==
            <<corner(0, -halfHeight, cos, sin), corner(0, halfHeight, cos, sin),
              corner(w, halfHeight, cos, sin), corner(w, -halfHeight, cos, sin)>>
    IN  corners(IF f.side = "left" THEN f.width ELSE -f.width,
                f.height \div 2, Cos(f.angle), Sin(f.angle))

\* edge i of the flipper with corners c, from corner i to the next one
\* round: where it starts, (dx, dy), its length and its direction (nx, ny)
FlipperEdge(c, i) ==
    LET edge(p1, dx, dy, length) ==
            [p1 |-> p1, dx |-> dx, dy |-> dy, length |-> length,
             nx |-> IF length = 0 THEN 0 ELSE DivQ(dx, length),
             ny |-> IF length = 0 THEN 0 ELSE DivQ(dy, length)]
        between(p1, p2) ==
            edge(p1, p2.x - p1.x, p2.y - p1.y,
                 magnitude(p2.x - p1.x, p2.y - p1.y))
    IN  between(c[i], c[(i % 4) + 1])

\* the point of edge e closest to the ball's centre: p1 + t * (dx, dy) with t
\* clamped to [0, 1], computed as the point at distance t * length from p1
EdgeClosest(e, b) ==
    LET point(s) == [x |-> e.p1.x + MulQ(e.nx, s), y |-> e.p1.y + MulQ(e.ny, s)]
    IN  point(Max(0, Min(e.length, MulQ(b.x - e.p1.x, e.nx)
                                   + MulQ(b.y - e.p1.y, e.ny))))

\* dist
EdgeDist(e, b) ==
    magnitude(b.x - EdgeClosest(e, b).x, b.y - EdgeClosest(e, b).y)

\* the edges of the flipper with corners c that the loop does not skip and
\* finds closer than the ball's radius
FlipperHitEdges(c, b) ==
    {i \in 1..4 : /\ FlipperEdge(c, i).length # 0
                  /\ EdgeDist(FlipperEdge(c, i), b) < b.radius}

FlipperHits(f, b) == FlipperHitEdges(FlipperCorners(f), b) # {}

\* the ball after Flipper.checkCollision(ball): the first edge found closer
\* than the ball's radius pushes the ball out along its normal, turned away
\* from the flipper's centre, reflects it, adds the flipper's force if the
\* flipper is activated and turning, and slows it
BallAfterFlipperCheck(f, b) ==
    LET first(S) == CHOOSE i \in S : \A k \in S : i <= k
        normal(c, e, closest) ==
            IF (-e.ny) * ((c[1].x + c[3].x) \div 2 - closest.x)
               + e.nx * ((c[1].y + c[3].y) \div 2 - closest.y) > 0
            THEN [x |-> e.ny, y |-> -e.nx]
            ELSE [x |-> -e.ny, y |-> e.nx]
        response(n, overlap, rx, ry, force, pushed) ==
            [b EXCEPT
               !.x = b.x + MulQ(n.x, overlap),
               !.y = b.y + MulQ(n.y, overlap),
               !.vx = MulQ(IF pushed THEN rx + MulQ(n.x, force) ELSE rx,
                           FlipperEnergyKept),
               !.vy = MulQ(IF pushed
                           THEN ry + MulQ(n.y, force) - MulQ(force, FlipperLift)
                           ELSE ry,
                           FlipperEnergyKept)]
        reflect(n, overlap, dotProduct) ==
            response(n, overlap,
                     b.vx - 2 * MulQ(dotProduct, n.x),
                     b.vy - 2 * MulQ(dotProduct, n.y),
                     Abs(MulQ(MulQ(f.angularVelocity, f.width), f.bounceFactor)),
                     f.isActivated /\ Abs(f.angularVelocity) > FlipperForceThreshold)
        bounce(n, overlap) == reflect(n, overlap, MulQ(b.vx, n.x) + MulQ(b.vy, n.y))
        offEdge(c, e) ==
            bounce(normal(c, e, EdgeClosest(e, b)), b.radius - EdgeDist(e, b))
        off(c) == offEdge(c, FlipperEdge(c, first(FlipperHitEdges(c, b))))
    IN  IF FlipperHits(f, b) THEN off(FlipperCorners(f)) ELSE b

\* what Flipper.checkCollision(ball) returns: true or false
FlipperCheckResult(f, b) == FlipperHits(f, b)

\* ------------------------------------------------------------------------
\* elements.js: Plunger
\* ------------------------------------------------------------------------

PlungerMaxPower == 1000

PlungerChargeSpeed == 20

PlungerMinLaunchVelocity == 10000

PlungerMaxLaunchVelocity == 30000

\* new Plunger(x, y, width, height)
NewPlunger(x, y, width, height) ==
    [x |-> x, y |-> y, width |-> width, height |-> height,
     power |-> 0, maxPower |-> PlungerMaxPower, isCharging |-> FALSE,
     chargeSpeed |-> PlungerChargeSpeed,
     minLaunchVelocity |-> PlungerMinLaunchVelocity,
     maxLaunchVelocity |-> PlungerMaxLaunchVelocity,
     compressionOffset |-> 0, maxCompression |-> MulQ(height, 400)]

\* Plunger.startCharge()
PlungerAfterStartCharge(p) == [p EXCEPT !.isCharging = TRUE, !.power = 0]

\* Plunger.release(): the plunger afterwards
PlungerAfterRelease(p) ==
    IF ~p.isCharging THEN p ELSE [p EXCEPT !.isCharging = FALSE, !.power = 0]

\* as PlungerReleaseResult, reading the charge after it has been reset
PlungerReleaseResult_ChargeReadLate(p) ==
    IF ~p.isCharging THEN RetNum(0)
    ELSE RetObj(-p.minLaunchVelocity, 0)

\* Plunger.release(): the value returned, the number 0 when not charging
PlungerReleaseResult(p) ==
    IF ~p.isCharging THEN RetNum(0)
    ELSE LET velocity == p.minLaunchVelocity +
                         MulQ(p.maxLaunchVelocity - p.minLaunchVelocity, p.power)
         IN  RetObj(-velocity, p.power)

\* as PlungerAfterUpdate, without the cap
PlungerAfterUpdate_Uncapped(p) ==
    LET p1 == IF p.isCharging
              THEN [p EXCEPT !.power = p.power + p.chargeSpeed]
              ELSE p
    IN  [p1 EXCEPT !.compressionOffset = MulQ(p1.power, p1.maxCompression)]

\* Plunger.update()
PlungerAfterUpdate(p) ==
    LET p1 == IF p.isCharging
              THEN [p EXCEPT !.power = Min(p.maxPower, p.power + p.chargeSpeed)]
              ELSE p
    IN  [p1 EXCEPT !.compressionOffset = MulQ(p1.power, p1.maxCompression)]

\* ------------------------------------------------------------------------
\* elements.js: Bumper
\* ------------------------------------------------------------------------

BumperHitDuration == 10

BumperBounceForce == 15000

BumperPoints == 100

\* new Bumper(x, y, radius); pulsePhase is read by draw() only and is not
\* modelled
NewBumper(x, y, radius) ==
    [x |-> x, y |-> y, radius |-> radius, points |-> BumperPoints,
     isLit |-> FALSE, hitTimer |-> 0, hitDuration |-> BumperHitDuration,
     bounceForce |-> BumperBounceForce]

\* as BumperTouches, leaving the ball's radius out
BumperTouches_IgnoresBallRadius(bu, b) ==
    magnitude(b.x - bu.x, b.y - bu.y) < bu.radius

\* the test of Bumper.checkCollision
BumperTouches(bu, b) == magnitude(b.x - bu.x, b.y - bu.y) < bu.radius + b.radius

\* the test of Bumper.hit: it returns early when the centres coincide
BumperHits(bu, b) == magnitude(b.x - bu.x, b.y - bu.y) # 0

\* as BallAfterBumperHit, adding the push to the velocity the ball has
BallAfterBumperHit_AddsVelocity(bu, b) ==
    LET dx == b.x - bu.x
        dy == b.y - bu.y
        dist == magnitude(dx, dy)
    IN  IF dist = 0 THEN b
        ELSE LET nx == DivQ(dx, dist)
                 ny == DivQ(dy, dist)
                 overlap == bu.radius + b.radius - dist
                 pushed == [b EXCEPT !.vx = b.vx + MulQ(nx, bu.bounceForce),
                                     !.vy = b.vy + MulQ(ny, bu.bounceForce)]
             IN  IF overlap > 0
                 THEN [pushed EXCEPT !.x = b.x + MulQ(nx, overlap),
                                     !.y = b.y + MulQ(ny, overlap)]
                 ELSE pushed

\* Bumper.hit(ball): the ball afterwards
BallAfterBumperHit(bu, b) ==
    LET dx == b.x - bu.x
        dy == b.y - bu.y
        dist == magnitude(dx, dy)
    IN  IF dist = 0 THEN b
        ELSE LET nx == DivQ(dx, dist)
                 ny == DivQ(dy, dist)
                 overlap == bu.radius + b.radius - dist
                 pushed == [b EXCEPT !.vx = MulQ(nx, bu.bounceForce),
                                     !.vy = MulQ(ny, bu.bounceForce)]
             IN  IF overlap > 0
                 THEN [pushed EXCEPT !.x = b.x + MulQ(nx, overlap),
                                     !.y = b.y + MulQ(ny, overlap)]
                 ELSE pushed

\* Bumper.hit(ball): the bumper afterwards
BumperAfterHit(bu, b) ==
    IF ~BumperHits(bu, b) THEN bu
    ELSE [bu EXCEPT !.isLit = TRUE, !.hitTimer = bu.hitDuration]

\* Bumper.hit(ball): the value returned
BumperHitResult(bu, b) == IF ~BumperHits(bu, b) THEN 0 ELSE bu.points

\* Bumper.checkCollision(ball): the ball afterwards
BallAfterBumperCheck(bu, b) ==
    IF BumperTouches(bu, b) THEN BallAfterBumperHit(bu, b) ELSE b

\* Bumper.checkCollision(ball): the bumper afterwards
BumperAfterCheck(bu, b) ==
    IF BumperTouches(bu, b) THEN BumperAfterHit(bu, b) ELSE bu

\* Bumper.checkCollision(ball): the value returned
BumperCheckResult(bu, b) ==
    IF BumperTouches(bu, b) THEN BumperHitResult(bu, b) ELSE 0

\* Bumper.update()
BumperAfterUpdate(bu) ==
    IF bu.hitTimer > 0
    THEN LET t == bu.hitTimer - 1
         IN  [bu EXCEPT !.hitTimer = t, !.isLit = IF t = 0 THEN FALSE ELSE bu.isLit]
    ELSE bu

\* ------------------------------------------------------------------------
\* elements.js: Wall
\* ------------------------------------------------------------------------

\* the value of 0 / 0 (not a number); it is outside the range of every
\* coordinate and velocity
NaN == 0 - Scale * Scale * Scale

WallEnergyKept == 950

\* new Wall(x1, y1, x2, y2); the end points are whole numbers of units, as
\* they are in TABLE.walls
NewWall(x1, y1, x2, y2) ==
    [x1 |-> x1, y1 |-> y1, x2 |-> x2, y2 |-> y2,
     dx |-> x2 - x1, dy |-> y2 - y1]

\* length * length, in whole units
WallLengthSq(w) ==
    (w.dx \div Scale) * (w.dx \div Scale) + (w.dy \div Scale) * (w.dy \div Scale)

\* the point of the segment closest to the ball's centre:
\* (x1 + t * dx, y1 + t * dy) with t clamped to [0, 1]; length > 0
WallClosest(w, b) ==
    LET \* a * n / d for 0 <= n <= d * Scale, without forming a * n
        MulDiv(a, n, d) == a * (n \div d) + TruncDiv(a * (n % d), d)
        at(dxU, dyU, num, len2) ==
            IF num <= 0 THEN [x |-> w.x1, y |-> w.y1]
            ELSE IF num >= len2 * Scale THEN [x |-> w.x2, y |-> w.y2]
            ELSE [x |-> w.x1 + MulDiv(dxU, num, len2),
                  y |-> w.y1 + MulDiv(dyU, num, len2)]
    IN  at(w.dx \div Scale, w.dy \div Scale,
           (b.x - w.x1) * (w.dx \div Scale) + (b.y - w.y1) * (w.dy \div Scale),
           WallLengthSq(w))

\* dist; length > 0
WallDist(w, b) ==
    LET c == WallClosest(w, b)
    IN  magnitude(b.x - c.x, b.y - c.y)

\* dist < ball.radius.  For a wall of length 0, t is 0 / 0 and so is dist,
\* and the comparison is false
WallHits(w, b) ==
    /\ WallLengthSq(w) # 0
    /\ WallDist(w, b) < b.radius

\* the ball after Wall.checkCollision(ball)
BallAfterWallCheck(w, b) ==
    LET reflected(nx, ny, overlap, dot) ==
            [b EXCEPT
               !.x = b.x + MulQ(nx, overlap),
               !.y = b.y + MulQ(ny, overlap),
               !.vx = MulQ(b.vx - 2 * MulQ(dot, nx), WallEnergyKept),
               !.vy = MulQ(b.vy - 2 * MulQ(dot, ny), WallEnergyKept)]
        pushed(nx, ny, overlap) ==
            reflected(nx, ny, overlap, MulQ(b.vx, nx) + MulQ(b.vy, ny))
        resolved(distX, distY, dist) ==
            IF dist = 0
            THEN \* nx = ny = 0 / 0
                 [b EXCEPT !.x = NaN, !.y = NaN, !.vx = NaN, !.vy = NaN]
            ELSE pushed(DivQ(distX, dist), DivQ(distY, dist), b.radius - dist)
        from(c) == resolved(b.x - c.x, b.y - c.y, magnitude(b.x - c.x, b.y - c.y))
    IN  IF WallHits(w, b) THEN from(WallClosest(w, b)) ELSE b

\* what Wall.checkCollision(ball) returns: true or false
WallCheckResult(w, b) == WallHits(w, b)

\* ------------------------------------------------------------------------
\* elements.js: Slingshot
\* ------------------------------------------------------------------------

SlingshotPoints == 10

SlingshotBounceForce == 12000

SlingshotHitDuration == 5

SlingshotNudge == 5000

\* new Slingshot(x, y, width, height, side), width > 0 and height > 0: the
\* three corners in the constructor's order, and the edge from each corner
\* to the next with the normal (-dy / length, dx / length)
NewSlingshot(x, y, width, height, side) ==
    LET vertices ==
            IF side = "left"
            THEN <<[x |-> x, y |-> y], [x |-> x + width, y |-> y + height],
                   [x |-> x, y |-> y + height]>>
            ELSE <<[x |-> x, y |-> y], [x |-> x - width, y |-> y + height],
                   [x |-> x, y |-> y + height]>>
        edge(p1, p2, dx, dy, length) ==
            [p1 |-> p1, p2 |-> p2,
             normal |-> [x |-> DivQ(-dy, length), y |-> DivQ(dx, length)],
             length |-> length]
        between(p1, p2) ==
            edge(p1, p2, p2.x - p1.x, p2.y - p1.y,
                 magnitude(p2.x - p1.x, p2.y - p1.y))
    IN  [x |-> x, y |-> y, width |-> width, height |-> height, side |-> side,
         points |-> SlingshotPoints, bounceForce |-> SlingshotBounceForce,
         isLit |-> FALSE, hitTimer |-> 0, hitDuration |-> SlingshotHitDuration,
         vertices |-> vertices,
         edges |-> [i \in 1..3 |-> between(vertices[i], vertices[(i % 3) + 1])]]

\* Slingshot.lineCircleCollision: the point of the segment closest to
\* (cx, cy) is nearer than r.  The end points are whole numbers of units
lineCircleCollision(x1, y1, x2, y2, cx, cy, r) ==
    LET seg == NewWall(x1, y1, x2, y2)
        c == [x |-> cx, y |-> cy]
    IN  /\ WallLengthSq(seg) # 0
        /\ magnitude(cx - WallClosest(seg, c).x, cy - WallClosest(seg, c).y) < r

\* the edges the ball touches
SlingshotHitEdges(s, b) ==
    {i \in 1..3 : lineCircleCollision(s.edges[i].p1.x, s.edges[i].p1.y,
                                      s.edges[i].p2.x, s.edges[i].p2.y,
                                      b.x, b.y, b.radius)}

SlingshotHits(s, b) == SlingshotHitEdges(s, b) # {}

\* Slingshot.deflect(ball, normal)
deflect(s, b, normal) ==
    LET dot == MulQ(b.vx, normal.x) + MulQ(b.vy, normal.y)
    IN  [b EXCEPT
           !.vx = b.vx - 2 * MulQ(dot, normal.x) + MulQ(normal.x, s.bounceForce),
           !.vy = b.vy - 2 * MulQ(dot, normal.y) + MulQ(normal.y, s.bounceForce),
           !.x = b.x + MulQ(normal.x, SlingshotNudge),
           !.y = b.y + MulQ(normal.y, SlingshotNudge)]

\* Slingshot.hit()
SlingshotAfterHit(s) == [s EXCEPT !.isLit = TRUE, !.hitTimer = s.hitDuration]

\* the ball, the slingshot and the value returned after
\* Slingshot.checkCollision(ball): the first edge the ball touches deflects it
BallAfterSlingshotCheck(s, b) ==
    LET first(S) == CHOOSE i \in S : \A k \in S : i <= k
    IN  IF SlingshotHits(s, b)
        THEN deflect(s, b, s.edges[first(SlingshotHitEdges(s, b))].normal)
        ELSE b

SlingshotAfterCheck(s, b) == IF SlingshotHits(s, b) THEN SlingshotAfterHit(s) ELSE s

SlingshotCheckResult(s, b) == IF SlingshotHits(s, b) THEN s.points ELSE 0

\* Slingshot.update()
SlingshotAfterUpdate(s) ==
    IF s.hitTimer > 0
    THEN [s EXCEPT !.hitTimer = s.hitTimer - 1,
                   !.isLit = IF s.hitTimer - 1 = 0 THEN FALSE ELSE s.isLit]
    ELSE s

\* ------------------------------------------------------------------------
\* elements.js: Target
\* ------------------------------------------------------------------------

TargetPoints == 50

TargetHitDuration == 8

TargetEnergyKept == 800

\* new Target(x, y, width, height, points)
NewTarget(x, y, width, height, points) ==
    [x |-> x, y |-> y, width |-> width, height |-> height, points |-> points,
     isLit |-> FALSE, wasHit |-> FALSE, hitTimer |-> 0,
     hitDuration |-> TargetHitDuration, glowIntensity |-> 0]

\* Target.hit(): the target afterwards; the call returns t.points
TargetAfterHit_LightsOnly(t) ==
    [t EXCEPT !.isLit = TRUE, !.wasHit = TRUE, !.hitTimer = t.hitDuration]

TargetAfterHit(t) ==
    [t EXCEPT !.isLit = ~t.isLit, !.wasHit = TRUE, !.hitTimer = t.hitDuration]

\* Target.reset()
TargetAfterReset(t) ==
    [t EXCEPT !.wasHit = FALSE, !.isLit = FALSE, !.hitTimer = 0,
              !.glowIntensity = 0]

\* Target.update()
TargetAfterUpdate(t) ==
    IF t.hitTimer > 0
    THEN [t EXCEPT !.hitTimer = t.hitTimer - 1,
                   !.glowIntensity = DivQ((t.hitTimer - 1) * Scale,
                                          t.hitDuration * Scale)]
    ELSE t

\* the point of the target's box closest to the ball's centre
TargetClosest(t, b) ==
    [x |-> Max(t.x, Min(b.x, t.x + t.width)),
     y |-> Max(t.y, Min(b.y, t.y + t.height))]

\* distSq < ball.radius * ball.radius
TargetHits(t, b) ==
    LET c == TargetClosest(t, b)
    IN  magnitude(b.x - c.x, b.y - c.y) < b.radius

\* the ball after Target.checkCollision(ball): reflected and pushed along the
\* axis on which it is further from the box's centre
BallAfterTargetCheck(t, b) ==
    IF ~TargetHits(t, b) THEN b
    ELSE LET c == TargetClosest(t, b)
             distX == b.x - c.x
             distY == b.y - c.y
             dx == b.x - (t.x + t.width \div 2)
             dy == b.y - (t.y + t.height \div 2)
         IN  IF Abs(dx) > Abs(dy)
             THEN [b EXCEPT !.vx = MulQ(-b.vx, TargetEnergyKept),
                            !.x = b.x + Sign(dx) * (b.radius - Abs(distX) + Scale)]
             ELSE [b EXCEPT !.vy = MulQ(-b.vy, TargetEnergyKept),
                            !.y = b.y + Sign(dy) * (b.radius - Abs(distY) + Scale)]

TargetAfterCheck(t, b) == IF TargetHits(t, b) THEN TargetAfterHit(t) ELSE t

TargetCheckResult(t, b) == IF TargetHits(t, b) THEN t.points ELSE 0

\* ------------------------------------------------------------------------
\* elements.js: Spinner
\* ------------------------------------------------------------------------

SpinnerPoints == 25

SpinnerFriction == 980

SpinnerImpact == 100

SpinnerEnergyKept == 900

\* new Spinner(x, y, width, height, points)
NewSpinner(x, y, width, height, points) ==
    [x |-> x, y |-> y, width |-> width, height |-> height, points |-> points,
     angle |-> 0, angularVelocity |-> 0, friction |-> SpinnerFriction,
     spinsCount |-> 0, lastAngle |-> 0]

\* dist < this.width / 2 + ball.radius
SpinnerHits(sp, b) ==
    magnitude(b.x - sp.x, b.y - sp.y) < sp.width \div 2 + b.radius

\* the spinner, the ball and the value returned after
\* Spinner.checkCollision(ball)
SpinnerAfterCheck(sp, b) ==
    IF SpinnerHits(sp, b)
    THEN [sp EXCEPT !.angularVelocity =
                       sp.angularVelocity + MulQ(magnitude(b.vx, b.vy), SpinnerImpact)]
    ELSE sp

BallAfterSpinnerCheck(sp, b) ==
    IF SpinnerHits(sp, b)
    THEN [b EXCEPT !.vx = MulQ(b.vx, SpinnerEnergyKept),
                   !.vy = MulQ(b.vy, SpinnerEnergyKept)]
    ELSE b

\* as SpinnerCheckResult, scoring whether or not the ball is on the spinner
SpinnerCheckResult_AlwaysScores(sp, b) == sp.points

SpinnerCheckResult(sp, b) == IF SpinnerHits(sp, b) THEN sp.points ELSE 0

\* Spinner.update(): turn, slow down, count, and only then bring the angle
\* back under 2 PI
SpinnerAfterUpdate(sp) ==
    LET angle == sp.angle + sp.angularVelocity
        fullRotations == angle \div (2 * Pi)
    IN  [sp EXCEPT
           !.angle = IF angle > 2 * Pi THEN angle - 2 * Pi ELSE angle,
           !.angularVelocity = MulQ(sp.angularVelocity, sp.friction),
           !.spinsCount = IF fullRotations > sp.spinsCount
                          THEN fullRotations ELSE sp.spinsCount]

\* ------------------------------------------------------------------------
\* utils.js: TABLE, and game.js: Game
\* ------------------------------------------------------------------------

\* TABLE.walls, in the order Game.setupTable builds them
TableWalls ==
    <<NewWall(20 * Scale, 0, 20 * Scale, 550 * Scale),
      NewWall(20 * Scale, 550 * Scale, 60 * Scale, 600 * Scale),
      NewWall(60 * Scale, 600 * Scale, 60 * Scale, 650 * Scale),
      NewWall(340 * Scale, 120 * Scale, 340 * Scale, 550 * Scale),
      NewWall(340 * Scale, 550 * Scale, 310 * Scale, 600 * Scale),
      NewWall(310 * Scale, 600 * Scale, 310 * Scale, 650 * Scale),
      NewWall(380 * Scale, 80 * Scale, 380 * Scale, 650 * Scale),
      NewWall(380 * Scale, 80 * Scale, 385 * Scale, 60 * Scale),
      NewWall(385 * Scale, 60 * Scale, 385 * Scale, 40 * Scale),
      NewWall(385 * Scale, 40 * Scale, 380 * Scale, 25 * Scale),
      NewWall(380 * Scale, 25 * Scale, 365 * Scale, 15 * Scale),
      NewWall(365 * Scale, 15 * Scale, 340 * Scale, 10 * Scale),
      NewWall(340 * Scale, 10 * Scale, 300 * Scale, 15 * Scale),
      NewWall(20 * Scale, 0, 300 * Scale, 0),
      NewWall(300 * Scale, 0, 300 * Scale, 15 * Scale),
      NewWall(350 * Scale, 120 * Scale, 350 * Scale, 650 * Scale)>>

\* TABLE.drainY
DrainY == 680000

\* the bonus for lighting every target
AllTargetsBonus == 1000

\* points per multiplier level, and the highest multiplier
MultiplierStep == 5000

MaxMultiplier == 10

\* balls per game
BallsPerGame == 3

\* the velocity a launch falls back on when the plunger returns 0
DefaultLaunchVelocity == -15000

\* this.ball = null: no body
NullBall == [NewBall(0, 0, 0) EXCEPT !.active = FALSE]

\* one call made by Game.update: the method, the index of the element in its
\* list, and the angle and angular velocity of the flipper it is made on
GameCall(op, n, angle, angularVelocity) ==
    [op |-> op, n |-> n, angle |-> angle, angularVelocity |-> angularVelocity]

\* new Game(): constructor and setupTable.  timers: pending callbacks of
\* ballLost's setTimeout; calls: the calls Game.update made in the last
\* frame, in order (a record of the execution, not a field of the program)
NewGame ==
    [state |-> "START", ball |-> NullBall, score |-> 0, highScore |-> 0,
     balls |-> BallsPerGame, multiplier |-> 1,
     plungerCharging |-> FALSE, plungerPower |-> 0, ballInPlunger |-> FALSE,
     leftFlipper |-> NewFlipper(110000, 620000, 80000, 15000, "left"),
     rightFlipper |-> NewFlipper(210000, 620000, 80000, 15000, "right"),
     bumpers |-> <<NewBumper(200 * Scale, 200 * Scale, 30 * Scale),
                   NewBumper(130 * Scale, 280 * Scale, 25 * Scale),
                   NewBumper(270 * Scale, 280 * Scale, 25 * Scale)>>,
     slingshots |->
        <<NewSlingshot(70 * Scale, 520 * Scale, 40 * Scale, 80 * Scale, "left"),
          NewSlingshot(330 * Scale, 520 * Scale, 40 * Scale, 80 * Scale, "right")>>,
     targets |->
        <<NewTarget(80 * Scale, 150 * Scale, 15 * Scale, 40 * Scale, TargetPoints),
          NewTarget(305 * Scale, 150 * Scale, 15 * Scale, 40 * Scale, TargetPoints),
          NewTarget(140 * Scale, 100 * Scale, 40 * Scale, 15 * Scale, TargetPoints),
          NewTarget(220 * Scale, 100 * Scale, 40 * Scale, 15 * Scale, TargetPoints)>>,
     plunger |-> NewPlunger(365000, 600000, 20000, 80000),
     timers |-> 0, calls |-> <<>>]

\* the call c is added to the record of the frame
Logged(g, c) == [g EXCEPT !.calls = Append(@, c)]

\* Game.addScore(points) without the cap on the multiplier
addScore_Uncapped(g, points) ==
    LET scored(score, newMultiplier) ==
            [g EXCEPT !.score = score,
                      !.multiplier =
                          IF newMultiplier > g.multiplier /\ g.multiplier < MaxMultiplier
                          THEN newMultiplier ELSE @,
                      !.highScore = IF score > @ THEN score ELSE @]
        add(score) == scored(score, score \div MultiplierStep + 1)
    IN  add(g.score + points * g.multiplier)

\* Game.addScore(points)
addScore(g, points) ==
    LET scored(score, newMultiplier) ==
            [g EXCEPT !.score = score,
                      !.multiplier =
                          IF newMultiplier > g.multiplier /\ g.multiplier < MaxMultiplier
                          THEN Min(newMultiplier, MaxMultiplier) ELSE @,
                      !.highScore = IF score > @ THEN score ELSE @]
        add(score) == scored(score, score \div MultiplierStep + 1)
    IN  add(g.score + points * g.multiplier)

\* Game.spawnBall()
spawnBall(g) ==
    [g EXCEPT !.ball = NewBall(370 * Scale, 550 * Scale, 8 * Scale),
              !.ballInPlunger = TRUE, !.plungerCharging = FALSE,
              !.plungerPower = 0]

\* the targets after targets.forEach(t => t.reset())
TargetsAfterReset(ts) == [j \in DOMAIN ts |-> TargetAfterReset(ts[j])]

\* Game.start()
start(g) ==
    spawnBall([g EXCEPT !.state = "PLAYING", !.score = 0,
                        !.balls = BallsPerGame, !.multiplier = 1,
                        !.targets = TargetsAfterReset(@)])

\* Game.reset()
reset(g) ==
    [g EXCEPT !.score = 0, !.balls = BallsPerGame, !.multiplier = 1,
              !.ball = NullBall, !.plungerCharging = FALSE, !.plungerPower = 0,
              !.ballInPlunger = FALSE, !.targets = TargetsAfterReset(@)]

\* Game.launchBall() launching at the default velocity whatever the charge
launchBall_IgnoresCharge(g, vx) ==
    IF ~g.ballInPlunger \/ g.ball = NullBall THEN g
    ELSE [g EXCEPT !.plunger = PlungerAfterRelease(@),
                   !.ball.vy = DefaultLaunchVelocity, !.ball.vx = vx,
                   !.ballInPlunger = FALSE, !.plungerCharging = FALSE,
                   !.plungerPower = 0]

\* Game.launchBall(); vx is the value randomRange(-0.5, 0.5) returns
launchBall(g, vx) ==
    LET launchVelocity(r) == IF r.kind = "object" THEN r.velocity ELSE r.value
        launched(v) ==
            [g EXCEPT !.plunger = PlungerAfterRelease(@),
                      !.ball.vy = IF v # 0 THEN v ELSE DefaultLaunchVelocity,
                      !.ball.vx = vx,
                      !.ballInPlunger = FALSE, !.plungerCharging = FALSE,
                      !.plungerPower = 0]
    IN  IF ~g.ballInPlunger \/ g.ball = NullBall THEN g
        ELSE launched(launchVelocity(PlungerReleaseResult(g.plunger)))

\* Game.ballLost() leaving the lost ball in this.ball
ballLost_KeepsBall(g) ==
    IF g.balls - 1 <= 0
    THEN [g EXCEPT !.balls = @ - 1, !.state = "GAME_OVER"]
    ELSE [g EXCEPT !.balls = @ - 1, !.state = "BALL_LOST", !.timers = @ + 1]

\* Game.ballLost() ending the game only below zero
ballLost_GameOverBelowZero(g) ==
    IF g.balls - 1 < 0
    THEN [g EXCEPT !.balls = @ - 1, !.ball = NullBall, !.state = "GAME_OVER"]
    ELSE [g EXCEPT !.balls = @ - 1, !.ball = NullBall, !.state = "BALL_LOST",
                   !.timers = @ + 1]

\* Game.ballLost(): the timeout it sets is counted in timers
ballLost(g) ==
    IF g.balls - 1 <= 0
    THEN [g EXCEPT !.balls = @ - 1, !.ball = NullBall, !.state = "GAME_OVER"]
    ELSE [g EXCEPT !.balls = @ - 1, !.ball = NullBall, !.state = "BALL_LOST",
                   !.timers = @ + 1]

\* the callback of ballLost's timeout
BallLostTimeout(g) ==
    IF g.state = "BALL_LOST"
    THEN spawnBall([g EXCEPT !.state = "PLAYING", !.timers = @ - 1])
    ELSE [g EXCEPT !.timers = @ - 1]

\* Game.update: the plunger is updated while it is being charged
PlungerCharged(g) ==
    IF g.plungerCharging /\ g.ballInPlunger
    THEN Logged([g EXCEPT !.plunger = PlungerAfterUpdate(@),
                          !.plungerPower = PlungerAfterUpdate(g.plunger).power],
                GameCall("plunger.update", 1, 0, 0))
    ELSE g

\* Game.update: this.ball.update()
Integrated(g) ==
    Logged([g EXCEPT !.ball = BallUpdate(@, NoBounds)],
           GameCall("ball.update", 1, 0, 0))

\* Game.checkCollisions: walls i and after, in the order of the list
RECURSIVE AfterWalls(_, _)
AfterWalls(g, i) ==
    IF i > Len(TableWalls) THEN g
    ELSE AfterWalls(Logged([g EXCEPT !.ball = BallAfterWallCheck(TableWalls[i], @)],
                           GameCall("wall.checkCollision", i, 0, 0)),
                    i + 1)

\* Game.checkCollisions: the left flipper, then the right one
AfterLeftFlipper(g) ==
    Logged([g EXCEPT !.ball = BallAfterFlipperCheck(g.leftFlipper, @)],
           GameCall("leftFlipper.checkCollision", 1, g.leftFlipper.angle,
                    g.leftFlipper.angularVelocity))

AfterRightFlipper(g) ==
    Logged([g EXCEPT !.ball = BallAfterFlipperCheck(g.rightFlipper, @)],
           GameCall("rightFlipper.checkCollision", 1, g.rightFlipper.angle,
                    g.rightFlipper.angularVelocity))

\* if (points > 0) this.addScore(points)
Scored(g, points) == IF points > 0 THEN addScore(g, points) ELSE g

\* Game.checkCollisions: bumpers i and after
RECURSIVE AfterBumpers(_, _)
AfterBumpers(g, i) ==
    IF i > Len(g.bumpers) THEN g
    ELSE AfterBumpers(
             Scored(Logged([g EXCEPT !.ball = BallAfterBumperCheck(g.bumpers[i], @),
                                     !.bumpers[i] = BumperAfterCheck(@, g.ball)],
                           GameCall("bumper.checkCollision", i, 0, 0)),
                    BumperCheckResult(g.bumpers[i], g.ball)),
             i + 1)

\* Game.checkCollisions: slingshots i and after
RECURSIVE AfterSlingshots(_, _)
AfterSlingshots(g, i) ==
    IF i > Len(g.slingshots) THEN g
    ELSE AfterSlingshots(
             Scored(Logged([g EXCEPT
                              !.ball = BallAfterSlingshotCheck(g.slingshots[i], @),
                              !.slingshots[i] = SlingshotAfterCheck(@, g.ball)],
                           GameCall("slingshot.checkCollision", i, 0, 0)),
                    SlingshotCheckResult(g.slingshots[i], g.ball)),
             i + 1)

\* as AllTargetsBonus, leaving the targets lit
AfterAllTargetsBonus_KeepsLit(g) ==
    IF \A j \in DOMAIN g.targets : g.targets[j].isLit
    THEN addScore(g, AllTargetsBonus)
    ELSE g

\* Game.checkCollisions: if (this.targets.every(t => t.isLit)) the bonus is
\* added and every target is reset
AfterAllTargetsBonus(g) ==
    IF \A j \in DOMAIN g.targets : g.targets[j].isLit
    THEN [addScore(g, AllTargetsBonus) EXCEPT !.targets = TargetsAfterReset(@)]
    ELSE g

\* Game.checkCollisions: targets i and after
RECURSIVE AfterTargets(_, _)
AfterTargets(g, i) ==
    LET checked ==
            Logged([g EXCEPT !.ball = BallAfterTargetCheck(g.targets[i], @),
                             !.targets[i] = TargetAfterCheck(@, g.ball)],
                   GameCall("target.checkCollision", i, 0, 0))
        points == TargetCheckResult(g.targets[i], g.ball)
    IN  IF i > Len(g.targets) THEN g
        ELSE AfterTargets(IF points > 0
                          THEN AfterAllTargetsBonus(addScore(checked, points))
                          ELSE checked,
                          i + 1)

\* Game.checkCollisions()
checkCollisions(g) ==
    IF g.ball = NullBall THEN g
    ELSE AfterTargets(
             AfterSlingshots(
                 AfterBumpers(AfterRightFlipper(AfterLeftFlipper(AfterWalls(g, 1))),
                              1),
                 1),
             1)

\* Game.update: if (this.ball.y > TABLE.drainY) this.ballLost()
DrainTested(g) ==
    Logged(IF g.ball.y > DrainY THEN ballLost(g) ELSE g,
           GameCall("drain test", 1, 0, 0))

\* the update() calls that end Game.update, in order
UpdateCalls(g) ==
    <<GameCall("leftFlipper.update", 1, 0, 0),
      GameCall("rightFlipper.update", 1, 0, 0)>>
    \o [j \in DOMAIN g.bumpers |-> GameCall("bumper.update", j, 0, 0)]
    \o [j \in DOMAIN g.slingshots |-> GameCall("slingshot.update", j, 0, 0)]
    \o [j \in DOMAIN g.targets |-> GameCall("target.update", j, 0, 0)]

\* Game.update: the flippers, bumpers, slingshots and targets are updated
ElementsUpdated(g) ==
    [g EXCEPT !.leftFlipper = FlipperAfterUpdate(@),
              !.rightFlipper = FlipperAfterUpdate(@),
              !.bumpers = [j \in DOMAIN @ |-> BumperAfterUpdate(@[j])],
              !.slingshots = [j \in DOMAIN @ |-> SlingshotAfterUpdate(@[j])],
              !.targets = [j \in DOMAIN @ |-> TargetAfterUpdate(@[j])],
              !.calls = @ \o UpdateCalls(g)]

\* as BallStepped, whether or not the ball rests in the plunger lane
BallStepped_InPlungerLaneToo(g) ==
    IF g.ball # NullBall
    THEN DrainTested(checkCollisions(Integrated(g)))
    ELSE g

\* Game.update: the ball is integrated, collided and tested for the drain
\* unless it rests in the plunger lane
BallStepped(g) ==
    IF g.ball # NullBall /\ ~g.ballInPlunger
    THEN DrainTested(checkCollisions(Integrated(g)))
    ELSE g

\* as GameUpdate, updating the elements before the ball is moved and collided
GameUpdate_ElementsFirst(g) ==
    IF g.state # "PLAYING" THEN g
    ELSE BallStepped(ElementsUpdated(PlungerCharged(g)))

\* Game.update(deltaTime)
GameUpdate(g) ==
    IF g.state # "PLAYING" THEN g
    ELSE ElementsUpdated(BallStepped(PlungerCharged(g)))

\* Game.gameLoop: one frame (render draws and changes nothing)
gameLoop(g) ==
    IF g.state \in {"PLAYING", "BALL_LOST"}
    THEN GameUpdate([g EXCEPT !.calls = <<>>])
    ELSE [g EXCEPT !.calls = <<>>]

\* Game.handleSpacePress() starting a game in BALL_LOST as well
handleSpacePress_StartsWhenLost(g) ==
    CASE g.state \in {"START", "BALL_LOST"} -> start(g)
      [] g.state = "PLAYING" ->
            IF g.ballInPlunger
            THEN [g EXCEPT !.plungerCharging = TRUE,
                           !.plunger = PlungerAfterStartCharge(@)]
            ELSE g
      [] g.state = "GAME_OVER" -> start(reset(g))
      [] OTHER -> g

\* Game.handleSpacePress()
handleSpacePress(g) ==
    CASE g.state = "START" -> start(g)
      [] g.state = "PLAYING" ->
            IF g.ballInPlunger
            THEN [g EXCEPT !.plungerCharging = TRUE,
                           !.plunger = PlungerAfterStartCharge(@)]
            ELSE g
      [] g.state = "GAME_OVER" -> start(reset(g))
      [] OTHER -> g

\* Game.togglePause()
togglePause(g) ==
    CASE g.state = "PLAYING" -> [g EXCEPT !.state = "PAUSED"]
      [] g.state = "PAUSED" -> [g EXCEPT !.state = "PLAYING"]
      [] OTHER -> g

\* ------------------------------------------------------------------------
\* The table the specifications below are run on.  Each specification
\* exercises some of the objects; the others are built and left alone.
\* ------------------------------------------------------------------------

BallRadius == 8000

KickerX == 100 * Scale

KickerY == 100 * Scale

KickerRadius == 15 * Scale

RolloverX == 50 * Scale

RolloverY == 50 * Scale

RolloverWidth == 30 * Scale

RolloverHeight == 20 * Scale

BumperX == 200000

BumperY == 200000

BumperRadius == 30000

IdleBalls == [i \in BallIds |-> NewBall(0, 0, BallRadius)]

IdleKicker == NewKicker(KickerX, KickerY, KickerRadius, -1571)

IdleRollover == NewRollover(RolloverX, RolloverY, RolloverWidth, RolloverHeight)

IdleFlipper == NewFlipper(110000, 620000, 80000, 15000, "left")

IdlePlunger == NewPlunger(365000, 600000, 20000, 80000)

IdleBumper == NewBumper(BumperX, BumperY, BumperRadius)

IdleSlingshot ==
    NewSlingshot(70 * Scale, 520 * Scale, 40 * Scale, 80 * Scale, "left")

IdleTarget ==
    NewTarget(140 * Scale, 100 * Scale, 40 * Scale, 15 * Scale, TargetPoints)

SpinnerX == 200 * Scale

SpinnerY == 400 * Scale

SpinnerWidth == 40 * Scale

SpinnerHeight == 10 * Scale

IdleSpinner ==
    NewSpinner(SpinnerX, SpinnerY, SpinnerWidth, SpinnerHeight, SpinnerPoints)

IdleGame == NewGame

\* every object not named in used is built and idle
IdleExcept(used) ==
    /\ IF "balls" \in used THEN TRUE ELSE balls = IdleBalls
    /\ IF "kicker" \in used THEN TRUE ELSE kicker = IdleKicker
    /\ IF "rollover" \in used THEN TRUE ELSE rollover = IdleRollover
    /\ IF "flipper" \in used THEN TRUE ELSE flipper = IdleFlipper
    /\ IF "plunger" \in used THEN TRUE ELSE plunger = IdlePlunger
    /\ IF "bumper" \in used THEN TRUE ELSE bumper = IdleBumper
    /\ IF "slingshot" \in used THEN TRUE ELSE slingshot = IdleSlingshot
    /\ IF "target" \in used THEN TRUE ELSE target = IdleTarget
    /\ IF "spinner" \in used THEN TRUE ELSE spinner = IdleSpinner
    /\ IF "game" \in used THEN TRUE ELSE game = IdleGame

\* ------------------------------------------------------------------------
\* The kicker and two balls: any order of Kicker.checkCollision,
\* Kicker.update and Ball.update calls
\* ------------------------------------------------------------------------

\* Ball.update() calls made on one ball
MaxFrames == 2

\* where a ball starts, relative to the kicker: on the centre, inside the
\* capture radius, exactly on it, outside it
KickerStartOffsets == {<<0, 0>>, <<3000, 4000>>, <<9000, 12000>>, <<0, 16000>>}

KickerStartVelocities == {<<0, 0>>, <<2000, -3000>>}

KickerStartBalls ==
    {[NewBall(KickerX + o[1], KickerY + o[2], BallRadius)
         EXCEPT !.vx = v[1], !.vy = v[2]] :
        o \in KickerStartOffsets, v \in KickerStartVelocities}

\* the second ball starts at rest.  hist.kcalls: Kicker.update() calls made
\* since the last capture; hist.frames: Ball.update() calls made on each ball
InitKicker ==
    /\ balls \in {bs \in [BallIds -> KickerStartBalls] :
                     bs[2].vx = 0 /\ bs[2].vy = 0 /\ bs[2].x = KickerX}
    /\ \E a \in EjectAngles : kicker = NewKicker(KickerX, KickerY, KickerRadius, a)
    /\ hist = [kcalls |-> 0, frames |-> [i \in BallIds |-> 0]]
    /\ ret = RetNone
    /\ last = Call("new", 0)
    /\ IdleExcept({"balls", "kicker"})

KickerCheckCollision(i) ==
    /\ kicker' = KickerAfterCheck(kicker, i, balls[i])
    /\ balls' = [balls EXCEPT ![i] = BallAfterKickerCheck(kicker, balls[i])]
    /\ ret' = RetNum(KickerCheckResult(kicker, balls[i]))
    /\ hist' = IF KickerCaptures(kicker, balls[i])
               THEN [hist EXCEPT !.kcalls = 0] ELSE hist
    /\ last' = Call("Kicker.checkCollision", i)
    /\ UNCHANGED <<game, rollover, flipper, plunger, bumper, slingshot, target,
                   spinner>>

KickerUpdate ==
    /\ kicker' = KickerAfterUpdate(kicker)
    /\ balls' = BallsAfterKickerUpdate(kicker, balls)
    /\ hist' = IF kicker.hasBall
               THEN [hist EXCEPT !.kcalls = hist.kcalls + 1] ELSE hist
    /\ ret' = RetNone
    /\ last' = Call("Kicker.update", 0)
    /\ UNCHANGED <<game, rollover, flipper, plunger, bumper, slingshot, target,
                   spinner>>

BallUpdateCall(i) ==
    /\ hist.frames[i] < MaxFrames
    /\ balls' = [balls EXCEPT ![i] = BallUpdate(balls[i], NoBounds)]
    /\ hist' = [hist EXCEPT !.frames[i] = hist.frames[i] + 1]
    /\ ret' = RetNone
    /\ last' = Call("Ball.update", i)
    /\ UNCHANGED <<game, kicker, rollover, flipper, plunger, bumper, slingshot,
                   target, spinner>>

NextKicker ==
    \/ \E i \in BallIds : KickerCheckCollision(i)
    \/ KickerUpdate
    \/ \E i \in BallIds : BallUpdateCall(i)

SpecKicker == InitKicker /\ [][NextKicker]_vars

\* ------------------------------------------------------------------------
\* The rollover and one ball: any order of Rollover.checkCollision (with the
\* ball wherever the frame has taken it), Rollover.update and Rollover.reset
\* ------------------------------------------------------------------------

\* the number of times the rollover has fired that the history tells apart
MaxFires == 2

\* where the ball's centre is when the rollover is checked: two points over
\* the lane, one on its left edge, one on its bottom edge, two outside
RolloverBallPoints ==
    {<<RolloverX + 10000, RolloverY + 10000>>,
     <<RolloverX + 20000, RolloverY + 15000>>,
     <<RolloverX, RolloverY + 10000>>,
     <<RolloverX + 10000, RolloverY + RolloverHeight>>,
     <<10000, 10000>>,
     <<RolloverX + RolloverWidth + 10000, RolloverY + 10000>>}

\* hist.fires: the times the rollover has fired (up to MaxFires);
\* hist.seenOutside: a check has seen the ball off the lane since it last
\* fired; hist.resetCalled: reset() has been called since it last fired;
\* hist.everReset: reset() has been called
InitRollover ==
    /\ balls = IdleBalls
    /\ rollover = IdleRollover
    /\ hist = [fires |-> 0, seenOutside |-> FALSE, resetCalled |-> FALSE,
               everReset |-> FALSE]
    /\ ret = RetNone
    /\ last = Call("new", 0)
    /\ IdleExcept({"balls", "rollover"})

RolloverCheckCollision(pt) ==
    LET b == [balls[1] EXCEPT !.x = pt[1], !.y = pt[2]]
        fired == RolloverCheckResult(rollover, b) # 0
    IN  /\ balls' = [balls EXCEPT ![1] = b]
        /\ rollover' = RolloverAfterCheck(rollover, b)
        /\ ret' = RetNum(RolloverCheckResult(rollover, b))
        /\ hist' = IF fired
                   THEN [hist EXCEPT !.fires = Min(hist.fires + 1, MaxFires),
                                     !.seenOutside = FALSE,
                                     !.resetCalled = FALSE]
                   ELSE IF ~RolloverOver(rollover, b)
                        THEN [hist EXCEPT !.seenOutside = TRUE]
                        ELSE hist
        /\ last' = Call("Rollover.checkCollision", 1)
        /\ UNCHANGED <<game, kicker, flipper, plunger, bumper, slingshot, target,
                       spinner>>

RolloverUpdate ==
    /\ rollover' = RolloverAfterUpdate(rollover)
    /\ ret' = RetNone
    /\ last' = Call("Rollover.update", 0)
    /\ UNCHANGED <<game, balls, kicker, flipper, plunger, bumper, slingshot, target,
                   spinner, hist>>

RolloverReset ==
    /\ rollover' = RolloverAfterReset(rollover)
    /\ hist' = [hist EXCEPT !.resetCalled = TRUE, !.everReset = TRUE]
    /\ ret' = RetNone
    /\ last' = Call("Rollover.reset", 0)
    /\ UNCHANGED <<game, balls, kicker, flipper, plunger, bumper, slingshot, target,
                   spinner>>

NextRollover ==
    \/ \E pt \in RolloverBallPoints : RolloverCheckCollision(pt)
    \/ RolloverUpdate
    \/ RolloverReset

SpecRollover == InitRollover /\ [][NextRollover]_vars

\* ------------------------------------------------------------------------
\* One flipper, left or right: any order of activate, deactivate and update
\* ------------------------------------------------------------------------

\* the update() calls of one activation that the history tells apart
MaxRun == 5

\* hist.run: the update() calls made since activate() was called on the
\* flipper at its rest angle, the flipper kept activated since (up to
\* MaxRun); -1 when the flipper is not in such a run
InitFlipper ==
    /\ \E side \in FlipperSides :
          flipper = NewFlipper(IF side = "left" THEN 110000 ELSE 210000,
                               620000, 80000, 15000, side)
    /\ hist = [run |-> -1]
    /\ ret = RetNone
    /\ last = Call("new", 0)
    /\ IdleExcept({"flipper"})

FlipperActivate ==
    /\ flipper' = FlipperAfterActivate(flipper)
    /\ hist' = IF ~flipper.isActivated /\ flipper.angle = flipper.restAngle
               THEN [run |-> 0] ELSE hist
    /\ ret' = RetNone
    /\ last' = Call("Flipper.activate", 0)
    /\ UNCHANGED <<game, balls, kicker, rollover, plunger, bumper, slingshot,
                   target, spinner>>

FlipperDeactivate ==
    /\ flipper' = FlipperAfterDeactivate(flipper)
    /\ hist' = [run |-> -1]
    /\ ret' = RetNone
    /\ last' = Call("Flipper.deactivate", 0)
    /\ UNCHANGED <<game, balls, kicker, rollover, plunger, bumper, slingshot,
                   target, spinner>>

FlipperUpdate ==
    /\ flipper' = FlipperAfterUpdate(flipper)
    /\ hist' = IF hist.run >= 0 THEN [run |-> Min(hist.run + 1, MaxRun)] ELSE hist
    /\ ret' = RetNone
    /\ last' = Call("Flipper.update", 0)
    /\ UNCHANGED <<game, balls, kicker, rollover, plunger, bumper, slingshot,
                   target, spinner>>

NextFlipper ==
    \/ FlipperActivate
    \/ FlipperDeactivate
    \/ FlipperUpdate

SpecFlipper == InitFlipper /\ [][NextFlipper]_vars

\* ------------------------------------------------------------------------
\* The plunger: any order of startCharge, update and release
\* ------------------------------------------------------------------------

\* the update() calls of one charge that the history tells apart
MaxTicks == 30

\* hist.ticks: the update() calls made since the last startCharge() (up to
\* MaxTicks); -1 when the plunger has not been charged since it was built or
\* released
InitPlunger ==
    /\ plunger = IdlePlunger
    /\ hist = [ticks |-> -1]
    /\ ret = RetNone
    /\ last = Call("new", 0)
    /\ IdleExcept({"plunger"})

PlungerStartCharge ==
    /\ plunger' = PlungerAfterStartCharge(plunger)
    /\ hist' = [ticks |-> 0]
    /\ ret' = RetNone
    /\ last' = Call("Plunger.startCharge", 0)
    /\ UNCHANGED <<game, balls, kicker, rollover, flipper, bumper, slingshot,
                   target, spinner>>

PlungerUpdate ==
    /\ plunger' = PlungerAfterUpdate(plunger)
    /\ hist' = IF hist.ticks >= 0 THEN [ticks |-> Min(hist.ticks + 1, MaxTicks)]
               ELSE hist
    /\ ret' = RetNone
    /\ last' = Call("Plunger.update", 0)
    /\ UNCHANGED <<game, balls, kicker, rollover, flipper, bumper, slingshot,
                   target, spinner>>

PlungerRelease ==
    /\ plunger' = PlungerAfterRelease(plunger)
    /\ ret' = PlungerReleaseResult(plunger)
    /\ hist' = [ticks |-> -1]
    /\ last' = Call("Plunger.release", 0)
    /\ UNCHANGED <<game, balls, kicker, rollover, flipper, bumper, slingshot,
                   target, spinner>>

NextPlunger ==
    \/ PlungerStartCharge
    \/ PlungerUpdate
    \/ PlungerRelease

SpecPlunger == InitPlunger /\ [][NextPlunger]_vars

\* ------------------------------------------------------------------------
\* The bumper checked against a ball that overlaps it, touches it or is away
\* from it: Bumper.checkCollision and Bumper.update in any order
\* ------------------------------------------------------------------------

\* multiples of the 3-4-5 triangle, in every quadrant: the ball overlaps the
\* bumper at centre distance 5, 20 and 35
BumperDiagonalOffsets ==
    {<<sx * a * k * 1000, sy * b * k * 1000>> :
        sx \in {-1, 1}, sy \in {-1, 1}, a \in {3}, b \in {4}, k \in {1, 4, 7}}
    \cup {<<sx * b * k * 1000, sy * a * k * 1000>> :
        sx \in {-1, 1}, sy \in {-1, 1}, a \in {3}, b \in {4}, k \in {1, 4, 7}}

\* along the axes, at centre distance 10 and 37
BumperAxisOffsets ==
    {<<s * d, 0>> : s \in {-1, 1}, d \in {10000, 37000}}
    \cup {<<0, s * d>> : s \in {-1, 1}, d \in {10000, 37000}}

\* on the bumper's centre, touching it at distance 38 exactly, and away
BumperOtherOffsets ==
    {<<0, 0>>, <<0, BumperRadius + BallRadius>>, <<24000, 32000>>, <<-30000, 40000>>}

BumperOffsets == BumperDiagonalOffsets \cup BumperAxisOffsets \cup BumperOtherOffsets

BumperIncomingVelocities == {<<0, 0>>, <<0, 5000>>, <<3000, -4000>>, <<-12000, 16000>>}

\* hist.start: the ball as it was placed
InitBumper ==
    /\ \E o \in BumperOffsets, v \in BumperIncomingVelocities :
          balls = [IdleBalls EXCEPT ![1] =
                      [NewBall(BumperX + o[1], BumperY + o[2], BallRadius)
                          EXCEPT !.vx = v[1], !.vy = v[2]]]
    /\ bumper = IdleBumper
    /\ hist = [start |-> balls[1]]
    /\ ret = RetNone
    /\ last = Call("new", 0)
    /\ IdleExcept({"balls", "bumper"})

BumperCheckCollision ==
    /\ balls' = [balls EXCEPT ![1] = BallAfterBumperCheck(bumper, balls[1])]
    /\ bumper' = BumperAfterCheck(bumper, balls[1])
    /\ ret' = RetNum(BumperCheckResult(bumper, balls[1]))
    /\ last' = Call("Bumper.checkCollision", 1)
    /\ UNCHANGED <<game, kicker, rollover, flipper, plunger, slingshot, target,
                   spinner, hist>>

BumperUpdate ==
    /\ bumper' = BumperAfterUpdate(bumper)
    /\ ret' = RetNone
    /\ last' = Call("Bumper.update", 0)
    /\ UNCHANGED <<game, balls, kicker, rollover, flipper, plunger, slingshot,
                   target, spinner, hist>>

NextBumper ==
    \/ BumperCheckCollision
    \/ BumperUpdate

SpecBumper == InitBumper /\ [][NextBumper]_vars

\* ------------------------------------------------------------------------
\* A ball dropped onto the bumper from straight above it.  One step is what
\* Game.update does with the ball and one bumper: Ball.update, then
\* Bumper.checkCollision, then Bumper.update
\* ------------------------------------------------------------------------

\* steps taken in one drop
MaxSteps == 10

\* the ball starts 40 to 60 above the bumper's centre, at rest or falling
DropStartHeights == {40000, 50000, 60000}

DropStartSpeeds == {0, 3000, 5000, 10000}

\* hist.start: the ball as it was dropped; hist.steps: the steps taken;
\* hist.hits: the steps in which the bumper's check returned its points
InitDrop ==
    /\ \E h \in DropStartHeights, v \in DropStartSpeeds :
          balls = [IdleBalls EXCEPT ![1] =
                      [NewBall(BumperX, BumperY - h, BallRadius) EXCEPT !.vy = v]]
    /\ bumper = IdleBumper
    /\ hist = [start |-> balls[1], steps |-> 0, hits |-> 0]
    /\ ret = RetNone
    /\ last = Call("new", 0)
    /\ IdleExcept({"balls", "bumper"})

DropStep ==
    LET moved == BallUpdate(balls[1], NoBounds)
        points == BumperCheckResult(bumper, moved)
    IN  /\ hist.steps < MaxSteps
        /\ balls' = [balls EXCEPT ![1] = BallAfterBumperCheck(bumper, moved)]
        /\ bumper' = BumperAfterUpdate(BumperAfterCheck(bumper, moved))
        /\ ret' = RetNum(points)
        /\ hist' = [hist EXCEPT !.steps = hist.steps + 1,
                                !.hits = hist.hits + (IF points > 0 THEN 1 ELSE 0)]
        /\ last' = Call("Game.update", 0)
        /\ UNCHANGED <<game, kicker, rollover, flipper, plunger, slingshot, target,
                       spinner>>

NextDrop == DropStep

SpecDrop == InitDrop /\ [][NextDrop]_vars

\* ------------------------------------------------------------------------
\* One element of any variant and one ball: checkCollision called again and
\* again, with the ball wherever the frame has taken it
\* ------------------------------------------------------------------------

ElementKinds ==
    {"Wall", "Flipper", "Bumper", "Slingshot", "Target", "Spinner",
     "Rollover", "Kicker"}

\* Target hits since the last reset() that the history tells apart
MaxHits == 3

\* Spinner.update() calls made on one spinner
MaxTurns == 6

\* Spinner.checkCollision() calls that find the ball on the spinner
MaxSpinnerHits == 2

\* the table's left wall, a wall along a 3-4-5 triangle and a wall of length 0
TestWalls ==
    <<NewWall(20 * Scale, 0, 20 * Scale, 550 * Scale),
      NewWall(100 * Scale, 100 * Scale, 130 * Scale, 140 * Scale),
      NewWall(50 * Scale, 50 * Scale, 50 * Scale, 50 * Scale)>>

\* where the ball is when checkCollision is called, in whole units: on the
\* element, touching it, and away from it
ElementPositions(kind) ==
    CASE kind = "Wall" ->
           {<<25, 100>>, <<20, 100>>, <<40, 100>>, <<20, 555>>, <<111, 123>>,
            <<115, 120>>, <<50, 50>>, <<50, 53>>}
      [] kind = "Flipper" ->
           {<<150, 629>>, <<110, 620>>, <<150, 600>>, <<250, 629>>,
            <<210, 620>>, <<170, 629>>}
      [] kind = "Bumper" -> {<<200, 200>>, <<200, 165>>, <<221, 228>>, <<200, 100>>}
      [] kind = "Slingshot" ->
           {<<65, 560>>, <<94, 558>>, <<90, 605>>, <<200, 560>>, <<335, 560>>,
            <<306, 558>>, <<310, 605>>}
      [] kind = "Target" -> {<<160, 120>>, <<135, 107>>, <<160, 107>>, <<160, 200>>}
      [] kind = "Spinner" -> {<<200, 410>>, <<200, 400>>, <<200, 300>>}
      [] kind = "Rollover" -> {<<60, 60>>, <<50, 60>>, <<0, 0>>}
      [] kind = "Kicker" -> {<<105, 100>>, <<100, 100>>, <<200, 100>>}

\* the velocity the ball has then, in whole units
ElementVelocities == {<<0, 0>>, <<-3, 4>>, <<12, 16>>, <<-12, -16>>}

\* the ball put at p with velocity v
Placed(p, v) ==
    [balls[1] EXCEPT !.x = p[1] * Scale, !.y = p[2] * Scale,
                     !.vx = v[1] * Scale, !.vy = v[2] * Scale]

InitElements ==
    /\ balls = IdleBalls
    /\ flipper \in {NewFlipper(110 * Scale, 620 * Scale, 80 * Scale, 15 * Scale, "left"),
                    NewFlipper(210 * Scale, 620 * Scale, 80 * Scale, 15 * Scale, "right")}
    /\ slingshot \in {NewSlingshot(70 * Scale, 520 * Scale, 40 * Scale, 80 * Scale, "left"),
                      NewSlingshot(330 * Scale, 520 * Scale, 40 * Scale, 80 * Scale, "right")}
    /\ \E kind \in ElementKinds :
          hist = [element |-> kind, placed |-> IdleBalls[1], hits |-> 0,
                  turns |-> 0, turned |-> 0, spinnerHits |-> 0]
    /\ hist.element # "Flipper" => flipper = IdleFlipper
    /\ hist.element # "Slingshot" => slingshot = IdleSlingshot
    /\ ret = RetNone
    /\ last = Call("new", 0)
    /\ IdleExcept({"balls", "flipper", "slingshot"})

WallCheckCollision(w, p, v) ==
    /\ hist.element = "Wall"
    /\ balls' = [balls EXCEPT ![1] = BallAfterWallCheck(TestWalls[w], Placed(p, v))]
    /\ ret' = RetBool(WallCheckResult(TestWalls[w], Placed(p, v)))
    /\ hist' = [hist EXCEPT !.placed = Placed(p, v)]
    /\ last' = Call("Wall.checkCollision", w)
    /\ UNCHANGED <<game, kicker, rollover, flipper, plunger, bumper, slingshot,
                   target, spinner>>

FlipperCheckCollision(p, v) ==
    /\ hist.element = "Flipper"
    /\ balls' = [balls EXCEPT ![1] = BallAfterFlipperCheck(flipper, Placed(p, v))]
    /\ ret' = RetBool(FlipperCheckResult(flipper, Placed(p, v)))
    /\ hist' = [hist EXCEPT !.placed = Placed(p, v)]
    /\ last' = Call("Flipper.checkCollision", 1)
    /\ UNCHANGED <<game, kicker, rollover, flipper, plunger, bumper, slingshot,
                   target, spinner>>

BumperCheckPlaced(p, v) ==
    /\ hist.element = "Bumper"
    /\ balls' = [balls EXCEPT ![1] = BallAfterBumperCheck(bumper, Placed(p, v))]
    /\ bumper' = BumperAfterCheck(bumper, Placed(p, v))
    /\ ret' = RetNum(BumperCheckResult(bumper, Placed(p, v)))
    /\ hist' = [hist EXCEPT !.placed = Placed(p, v)]
    /\ last' = Call("Bumper.checkCollision", 1)
    /\ UNCHANGED <<game, kicker, rollover, flipper, plunger, slingshot, target,
                   spinner>>

SlingshotCheckCollision(p, v) ==
    /\ hist.element = "Slingshot"
    /\ balls' = [balls EXCEPT ![1] = BallAfterSlingshotCheck(slingshot, Placed(p, v))]
    /\ slingshot' = SlingshotAfterCheck(slingshot, Placed(p, v))
    /\ ret' = RetNum(SlingshotCheckResult(slingshot, Placed(p, v)))
    /\ hist' = [hist EXCEPT !.placed = Placed(p, v)]
    /\ last' = Call("Slingshot.checkCollision", 1)
    /\ UNCHANGED <<game, kicker, rollover, flipper, plunger, bumper, target, spinner>>

SlingshotUpdate ==
    /\ hist.element = "Slingshot"
    /\ slingshot' = SlingshotAfterUpdate(slingshot)
    /\ ret' = RetNone
    /\ last' = Call("Slingshot.update", 0)
    /\ UNCHANGED <<game, balls, kicker, rollover, flipper, plunger, bumper, target,
                   spinner, hist>>

TargetCheckCollision(p, v) ==
    /\ hist.element = "Target"
    /\ hist.hits < MaxHits
    /\ balls' = [balls EXCEPT ![1] = BallAfterTargetCheck(target, Placed(p, v))]
    /\ target' = TargetAfterCheck(target, Placed(p, v))
    /\ ret' = RetNum(TargetCheckResult(target, Placed(p, v)))
    /\ hist' = [hist EXCEPT !.placed = Placed(p, v),
                            !.hits = IF TargetHits(target, Placed(p, v))
                                     THEN hist.hits + 1 ELSE hist.hits]
    /\ last' = Call("Target.checkCollision", 1)
    /\ UNCHANGED <<game, kicker, rollover, flipper, plunger, bumper, slingshot,
                   spinner>>

TargetUpdate ==
    /\ hist.element = "Target"
    /\ target' = TargetAfterUpdate(target)
    /\ ret' = RetNone
    /\ last' = Call("Target.update", 0)
    /\ UNCHANGED <<game, balls, kicker, rollover, flipper, plunger, bumper,
                   slingshot, spinner, hist>>

TargetReset ==
    /\ hist.element = "Target"
    /\ target' = TargetAfterReset(target)
    /\ hist' = [hist EXCEPT !.hits = 0]
    /\ ret' = RetNone
    /\ last' = Call("Target.reset", 0)
    /\ UNCHANGED <<game, balls, kicker, rollover, flipper, plunger, bumper,
                   slingshot, spinner>>

SpinnerCheckCollision(p, v) ==
    /\ hist.element = "Spinner"
    /\ hist.spinnerHits < MaxSpinnerHits
    /\ balls' = [balls EXCEPT ![1] = BallAfterSpinnerCheck(spinner, Placed(p, v))]
    /\ spinner' = SpinnerAfterCheck(spinner, Placed(p, v))
    /\ ret' = RetNum(SpinnerCheckResult(spinner, Placed(p, v)))
    /\ hist' = [hist EXCEPT !.placed = Placed(p, v),
                            !.spinnerHits = IF SpinnerHits(spinner, Placed(p, v))
                                            THEN hist.spinnerHits + 1
                                            ELSE hist.spinnerHits]
    /\ last' = Call("Spinner.checkCollision", 1)
    /\ UNCHANGED <<game, kicker, rollover, flipper, plunger, bumper, slingshot,
                   target>>

\* turned is the angle the spinner has turned through since it was built
SpinnerUpdate ==
    /\ hist.element = "Spinner"
    /\ hist.turns < MaxTurns
    /\ spinner' = SpinnerAfterUpdate(spinner)
    /\ hist' = [hist EXCEPT !.turns = hist.turns + 1,
                            !.turned = hist.turned + spinner.angularVelocity]
    /\ ret' = RetNone
    /\ last' = Call("Spinner.update", 0)
    /\ UNCHANGED <<game, balls, kicker, rollover, flipper, plunger, bumper,
                   slingshot, target>>

RolloverCheckPlaced(p, v) ==
    /\ hist.element = "Rollover"
    /\ balls' = [balls EXCEPT ![1] = Placed(p, v)]
    /\ rollover' = RolloverAfterCheck(rollover, Placed(p, v))
    /\ ret' = RetNum(RolloverCheckResult(rollover, Placed(p, v)))
    /\ hist' = [hist EXCEPT !.placed = Placed(p, v)]
    /\ last' = Call("Rollover.checkCollision", 1)
    /\ UNCHANGED <<game, kicker, flipper, plunger, bumper, slingshot, target,
                   spinner>>

KickerCheckPlaced(p, v) ==
    /\ hist.element = "Kicker"
    /\ balls' = [balls EXCEPT ![1] = BallAfterKickerCheck(kicker, Placed(p, v))]
    /\ kicker' = KickerAfterCheck(kicker, 1, Placed(p, v))
    /\ ret' = RetNum(KickerCheckResult(kicker, Placed(p, v)))
    /\ hist' = [hist EXCEPT !.placed = Placed(p, v)]
    /\ last' = Call("Kicker.checkCollision", 1)
    /\ UNCHANGED <<game, rollover, flipper, plunger, bumper, slingshot, target,
                   spinner>>

NextElements ==
    \/ \E w \in 1..3 : \E p \in ElementPositions("Wall") :
          \E v \in ElementVelocities : WallCheckCollision(w, p, v)
    \/ \E p \in ElementPositions("Flipper") : \E v \in ElementVelocities :
          FlipperCheckCollision(p, v)
    \/ \E p \in ElementPositions("Bumper") : \E v \in ElementVelocities :
          BumperCheckPlaced(p, v)
    \/ \E p \in ElementPositions("Slingshot") : \E v \in ElementVelocities :
          SlingshotCheckCollision(p, v)
    \/ \E p \in ElementPositions("Target") : \E v \in ElementVelocities :
          TargetCheckCollision(p, v)
    \/ \E p \in ElementPositions("Spinner") : \E v \in ElementVelocities :
          SpinnerCheckCollision(p, v)
    \/ \E p \in ElementPositions("Rollover") : \E v \in ElementVelocities :
          RolloverCheckPlaced(p, v)
    \/ \E p \in ElementPositions("Kicker") : \E v \in ElementVelocities :
          KickerCheckPlaced(p, v)

SpecElements == InitElements /\ [][NextElements]_vars

\* ------------------------------------------------------------------------
\* One slingshot, left or right: Slingshot.checkCollision and
\* Slingshot.update in any order
\* ------------------------------------------------------------------------

InitSlingshot == InitElements /\ hist.element = "Slingshot"

NextSlingshot ==
    \/ \E p \in ElementPositions("Slingshot") : \E v \in ElementVelocities :
          SlingshotCheckCollision(p, v)
    \/ SlingshotUpdate

SpecSlingshot == InitSlingshot /\ [][NextSlingshot]_vars

\* ------------------------------------------------------------------------
\* One target: Target.checkCollision, Target.update and Target.reset in any
\* order
\* ------------------------------------------------------------------------

InitTarget == InitElements /\ hist.element = "Target"

NextTarget ==
    \/ \E p \in ElementPositions("Target") : \E v \in ElementVelocities :
          TargetCheckCollision(p, v)
    \/ TargetUpdate
    \/ TargetReset

SpecTarget == InitTarget /\ [][NextTarget]_vars

\* ------------------------------------------------------------------------
\* One spinner: Spinner.checkCollision and Spinner.update in any order
\* ------------------------------------------------------------------------

InitSpinner == InitElements /\ hist.element = "Spinner"

NextSpinner ==
    \/ \E p \in ElementPositions("Spinner") : \E v \in ElementVelocities :
          SpinnerCheckCollision(p, v)
    \/ SpinnerUpdate

SpecSpinner == InitSpinner /\ [][NextSpinner]_vars

\* ------------------------------------------------------------------------
\* One ball integrated on its own: Ball.update(), as the game calls it, and
\* Ball.update(bounds) with the canvas as bounds, in any order
\* ------------------------------------------------------------------------

\* Ball.update calls made on the ball
MaxUpdates == 3

CanvasWidth == 400 * Scale

CanvasHeight == 700 * Scale

CanvasBounds == [x |-> 0, y |-> 0, width |-> CanvasWidth, height |-> CanvasHeight]

\* where the ball starts: next to the left bound, and in the open
BallStartXs == {8050, 200 * Scale}

\* the velocity it starts with, in thousandths: at rest, just above and just
\* below the threshold, a launch, and faster than the speed limit both ways
BallStartVxs == {0, -120, 101, 500, 16 * Scale, -30 * Scale}

BallStartVys == {0, -300, -401, 12 * Scale, -15 * Scale, -30 * Scale}

InitBall ==
    /\ \E x \in BallStartXs : \E vx \in BallStartVxs : \E vy \in BallStartVys :
          balls = [IdleBalls EXCEPT
                     ![1] = [NewBall(x, 300 * Scale, BallRadius)
                               EXCEPT !.vx = vx, !.vy = vy]]
    /\ hist = [updates |-> 0]
    /\ ret = RetNone
    /\ last = Call("new", 0)
    /\ IdleExcept({"balls"})

\* ball.update()
BallUpdateNoBounds ==
    /\ hist.updates < MaxUpdates
    /\ balls' = [balls EXCEPT ![1] = BallUpdate(balls[1], NoBounds)]
    /\ hist' = [hist EXCEPT !.updates = hist.updates + 1]
    /\ ret' = RetNone
    /\ last' = Call("Ball.update", 0)
    /\ UNCHANGED <<game, kicker, rollover, flipper, plunger, bumper, slingshot,
                   target, spinner>>

\* ball.update(bounds)
BallUpdateInBounds ==
    /\ hist.updates < MaxUpdates
    /\ balls' = [balls EXCEPT ![1] = BallUpdate(balls[1], CanvasBounds)]
    /\ hist' = [hist EXCEPT !.updates = hist.updates + 1]
    /\ ret' = RetNone
    /\ last' = Call("Ball.update", 1)
    /\ UNCHANGED <<game, kicker, rollover, flipper, plunger, bumper, slingshot,
                   target, spinner>>

NextBall == BallUpdateNoBounds \/ BallUpdateInBounds

SpecBall == InitBall /\ [][NextBall]_vars

\* ------------------------------------------------------------------------
\* The game session: frames of Game.gameLoop, key presses and releases, and
\* the timeout of a lost ball, in any order
\* ------------------------------------------------------------------------

\* frames of the game loop
MaxGameFrames == 3

\* key presses and releases
MaxKeys == 1

\* the keys the listeners act on (the arrow keys do as a, d and space)
Keys == {"a", "d", " ", "p"}

\* values of randomRange(-0.5, 0.5)
LaunchVxs == {-400, 0, 250}

\* a session in the middle of play: the ball at (x, y) with velocity
\* (vx, vy), the targets of lit lit, score points scored, balls balls left
InPlay(x, y, vx, vy, lit, score, ballsLeft) ==
    [NewGame EXCEPT
        !.state = "PLAYING",
        !.ball = [NewBall(x, y, 8 * Scale) EXCEPT !.vx = vx, !.vy = vy],
        !.score = score, !.highScore = score,
        !.multiplier = Min(score \div MultiplierStep + 1, MaxMultiplier),
        !.balls = ballsLeft,
        !.targets = [j \in DOMAIN @ |->
                        IF j \in lit
                        THEN [@[j] EXCEPT !.isLit = TRUE, !.wasHit = TRUE]
                        ELSE @[j]]]

\* the sessions a run starts from: a new game, a game just started (the
\* ball in the plunger lane), a game started and the launch key held for two
\* frames, and sessions in play with the ball below the third target, above
\* the drain, and above the left flipper
GameStarts ==
    {NewGame, start(NewGame),
     gameLoop(gameLoop(handleSpacePress(start(NewGame))))}
    \cup {InPlay(160 * Scale, 126 * Scale, 0, -5 * Scale, lit, score, BallsPerGame) :
            lit \in {{1, 2, 4}, {1, 2, 3}}, score \in {0, 4950}}
    \cup {InPlay(200 * Scale, 676 * Scale, 0, 8 * Scale, {1}, 300, n) : n \in {1, 2}}
    \cup {InPlay(150 * Scale, 622 * Scale, 0, 6 * Scale, {}, 0, BallsPerGame)}

\* the angle and angular velocity of both flippers
FlipperAngles(g) ==
    [left |-> <<g.leftFlipper.angle, g.leftFlipper.angularVelocity>>,
     right |-> <<g.rightFlipper.angle, g.rightFlipper.angularVelocity>>]

\* hist.frames: frames so far; hist.keys: key events so far; hist.updated:
\* the flippers' angles and angular velocities as the last update() calls (or
\* the constructor) left them; hist.charge: the plunger's power at the end of
\* the last frame; hist.drains: the balls lost since the last start()
InitGame ==
    /\ game \in GameStarts
    /\ hist = [frames |-> 0, keys |-> 0, updated |-> FlipperAngles(game),
               charge |-> game.plunger.power,
               drains |-> BallsPerGame - game.balls]
    /\ ret = RetNone
    /\ last = Call("new", 0)
    /\ IdleExcept({"game"})

\* one frame: Game.gameLoop
GameLoop ==
    /\ hist.frames < MaxGameFrames
    /\ game' = gameLoop(game)
    /\ hist' = [hist EXCEPT !.frames = @ + 1,
                             !.updated = IF game.state = "PLAYING"
                                         THEN FlipperAngles(game') ELSE @,
                             !.charge = game'.plunger.power,
                             !.drains = IF game.ball # NullBall
                                           /\ game'.ball = NullBall
                                        THEN @ + 1 ELSE @]
    /\ ret' = RetNone
    /\ last' = Call("Game.gameLoop", 0)
    /\ UNCHANGED <<balls, kicker, rollover, flipper, plunger, bumper, slingshot,
                   target, spinner>>

\* the keydown listener
KeyDown(key) ==
    /\ hist.keys < MaxKeys
    /\ game' = CASE key = "a" ->
                      IF game.state = "PLAYING"
                      THEN [game EXCEPT !.leftFlipper = FlipperAfterActivate(@)]
                      ELSE game
                 [] key = "d" ->
                      IF game.state = "PLAYING"
                      THEN [game EXCEPT !.rightFlipper = FlipperAfterActivate(@)]
                      ELSE game
                 [] key = " " -> handleSpacePress(game)
                 [] key = "p" -> togglePause(game)
    /\ hist' = [hist EXCEPT !.keys = @ + 1,
                             !.drains = IF key = " "
                                           /\ game.state \in {"START", "GAME_OVER"}
                                        THEN 0 ELSE @]
    /\ ret' = RetNone
    /\ last' = Call("keydown", key)
    /\ UNCHANGED <<balls, kicker, rollover, flipper, plunger, bumper, slingshot,
                   target, spinner>>

\* the keyup listener; vx is the value randomRange returns in launchBall
KeyUp(key, vx) ==
    /\ hist.keys < MaxKeys
    /\ game' = CASE key = "a" ->
                      [game EXCEPT !.leftFlipper = FlipperAfterDeactivate(@)]
                 [] key = "d" ->
                      [game EXCEPT !.rightFlipper = FlipperAfterDeactivate(@)]
                 [] key = " " ->
                      IF game.state = "PLAYING" /\ game.ballInPlunger
                      THEN launchBall(game, vx) ELSE game
                 [] OTHER -> game
    /\ hist' = [hist EXCEPT !.keys = @ + 1]
    /\ ret' = RetNone
    /\ last' = Call("keyup", key)
    /\ UNCHANGED <<balls, kicker, rollover, flipper, plunger, bumper, slingshot,
                   target, spinner>>

\* the callback of the timeout set by Game.ballLost
Timeout ==
    /\ game.timers > 0
    /\ game' = BallLostTimeout(game)
    /\ ret' = RetNone
    /\ last' = Call("timeout", 0)
    /\ UNCHANGED <<balls, kicker, rollover, flipper, plunger, bumper, slingshot,
                   target, spinner, hist>>

NextGame ==
    \/ GameLoop
    \/ \E key \in Keys : KeyDown(key)
    \/ \E key \in Keys, vx \in LaunchVxs : KeyUp(key, vx)
    \/ Timeout

SpecGame == InitGame /\ [][NextGame]_vars

\* every field of the session is of its kind
GameTypeOK ==
    /\ game.state \in {"START", "PLAYING", "BALL_LOST", "GAME_OVER", "PAUSED"}
    /\ game.multiplier \in 1..MaxMultiplier
    /\ game.balls \in 0..BallsPerGame
    /\ game.ballInPlunger => game.ball # NullBall

\* ------------------------------------------------------------------------
\* Scoring: Game.addScore calls in a started game, and the start of the
\* next game
\* ------------------------------------------------------------------------

\* scores up to which points are added
MaxScore == 56000

\* the points of a bumper and of the bonus for all targets
ScorePoints == {BumperPoints, AllTargetsBonus}

\* values loadHighScore() returns
SavedHighScores == {0, 20000}

\* new Game() and start(), with the high score read from storage
InitScore ==
    /\ game \in {start([NewGame EXCEPT !.highScore = h]) : h \in SavedHighScores}
    /\ hist = [frames |-> 0]
    /\ ret = RetNone
    /\ last = Call("Game.start", 0)
    /\ IdleExcept({"game"})

\* Game.addScore(points)
AddScore(points) ==
    /\ game.score < MaxScore
    /\ game' = addScore(game, points)
    /\ ret' = RetNone
    /\ last' = Call("Game.addScore", points)
    /\ UNCHANGED <<balls, kicker, rollover, flipper, plunger, bumper, slingshot,
                   target, spinner, hist>>

\* the game is over and the space key starts the next: reset() and start()
StartAgain ==
    /\ game.score > 0
    /\ game' = start(reset(game))
    /\ ret' = RetNone
    /\ last' = Call("Game.start", 0)
    /\ UNCHANGED <<balls, kicker, rollover, flipper, plunger, bumper, slingshot,
                   target, spinner, hist>>

NextScore ==
    \/ \E points \in ScorePoints : AddScore(points)
    \/ StartAgain

SpecScore == InitScore /\ [][NextScore]_vars

\* ------------------------------------------------------------------------
\* physics.js: circleLineCollision and circlePolygonCollision
\* ------------------------------------------------------------------------

\* return null
NoCollision ==
    [hit |-> FALSE, point |-> [x |-> 0, y |-> 0], normal |-> [x |-> 0, y |-> 0],
     depth |-> 0]

\* circleLineCollision(ball, x1, y1, x2, y2): null, or {point, normal, depth}
circleLineCollision(b, x1, y1, x2, y2) ==
    LET contact(cx, cy, dx, dy, dist) ==
            IF dist < b.radius /\ dist > 0
            THEN [hit |-> TRUE, point |-> [x |-> cx, y |-> cy],
                  normal |-> [x |-> DivQ(dx, dist), y |-> DivQ(dy, dist)],
                  depth |-> b.radius - dist]
            ELSE NoCollision
        at(cx, cy) ==
            contact(cx, cy, b.x - cx, b.y - cy, magnitude(b.x - cx, b.y - cy))
        along(dirX, dirY, projection) ==
            at(x1 + MulQ(dirX, projection), y1 + MulQ(dirY, projection))
        dir(dirX, dirY, length) ==
            along(dirX, dirY,
                  Max(0, Min(length, MulQ(b.x - x1, dirX) + MulQ(b.y - y1, dirY))))
        line(lineX, lineY, lineLength) ==
            IF lineLength = 0 THEN NoCollision
            ELSE dir(DivQ(lineX, lineLength), DivQ(lineY, lineLength), lineLength)
    IN  line(x2 - x1, y2 - y1, magnitude(x2 - x1, y2 - y1))

\* the loop of circlePolygonCollision from edge i on; closest is
\* closestCollision, and minDepth is its depth (Infinity while it is null)
RECURSIVE PolygonCollisionFrom(_, _, _, _)
PolygonCollisionFrom(b, vertices, i, closest) ==
    LET kept(collision) ==
            IF collision.hit /\ (~closest.hit \/ collision.depth < closest.depth)
            THEN collision ELSE closest
    IN  IF i > Len(vertices) THEN closest
        ELSE PolygonCollisionFrom(
                 b, vertices, i + 1,
                 kept(circleLineCollision(b, vertices[i].x, vertices[i].y,
                                          vertices[(i % Len(vertices)) + 1].x,
                                          vertices[(i % Len(vertices)) + 1].y)))

\* circlePolygonCollision(ball, vertices)
circlePolygonCollision(b, vertices) ==
    PolygonCollisionFrom(b, vertices, 1, NoCollision)

\* ------------------------------------------------------------------------
\* circlePolygonCollision called on a square and on a triangle, with the
\* ball on a grid of places around and inside them
\* ------------------------------------------------------------------------

\* a square of side 40 and a right triangle of sides 30, 40 and 50
Polygons ==
    {<<[x |-> 100 * Scale, y |-> 100 * Scale], [x |-> 140 * Scale, y |-> 100 * Scale],
       [x |-> 140 * Scale, y |-> 140 * Scale], [x |-> 100 * Scale, y |-> 140 * Scale]>>,
     <<[x |-> 100 * Scale, y |-> 100 * Scale], [x |-> 130 * Scale, y |-> 140 * Scale],
       [x |-> 100 * Scale, y |-> 140 * Scale]>>}

\* the coordinates the ball's centre is placed on, in whole units
PolygonGrid == {91, 95, 100, 103, 106, 120, 134, 137, 143}

\* hist.vertices, hist.placed: the arguments; hist.collision: the value
\* returned once hist.called
InitPolygon ==
    /\ \E vs \in Polygons, x \in PolygonGrid, y \in PolygonGrid :
          hist = [vertices |-> vs, placed |-> NewBall(x * Scale, y * Scale, 8 * Scale),
                  collision |-> NoCollision, called |-> FALSE]
    /\ ret = RetNone
    /\ last = Call("new", 0)
    /\ IdleExcept({})

\* circlePolygonCollision(ball, vertices)
PolygonCollision ==
    /\ ~hist.called
    /\ hist' = [hist EXCEPT !.called = TRUE,
                   !.collision = circlePolygonCollision(hist.placed, hist.vertices)]
    /\ ret' = IF hist'.collision.hit THEN RetObj(0, 0) ELSE RetNone
    /\ last' = Call("circlePolygonCollision", 0)
    /\ UNCHANGED <<game, balls, kicker, rollover, flipper, plunger, bumper,
                   slingshot, target, spinner>>

NextPolygon == PolygonCollision

SpecPolygon == InitPolygon /\ [][NextPolygon]_vars

\* ------------------------------------------------------------------------
\* The kicker and two balls: Kicker.checkCollision and Kicker.update calls
\* only, update() being called again and again
\* ------------------------------------------------------------------------

NextKickerHold ==
    \/ \E i \in BallIds : KickerCheckCollision(i)
    \/ KickerUpdate

SpecKickerHold ==
    InitKicker /\ [][NextKickerHold]_vars /\ WF_vars(KickerUpdate)

\* ------------------------------------------------------------------------
\* Claims about the kicker
\* ------------------------------------------------------------------------

\* the ball's centre is closer to the kicker's centre than the kicker's radius
InsideKicker(k, b) ==
    /\ Abs(b.x - k.x) < k.radius
    /\ Abs(b.y - k.y) < k.radius
    /\ (b.x - k.x) * (b.x - k.x) + (b.y - k.y) * (b.y - k.y) < k.radius * k.radius

\* C1: while a body is held it is not integrated: it stays at the kicker's
\* centre with zero velocity, whatever Ball.update() calls are made, until
\* it is ejected.
C1_HeldBodyIsNotIntegrated ==
    \A i \in BallIds :
        balls[i].isHeld =>
            /\ balls[i].x = kicker.x
            /\ balls[i].y = kicker.y
            /\ balls[i].vx = 0
            /\ balls[i].vy = 0

\* C2: a captured body is still captured after each of the first
\* holdDuration - 1 calls of Kicker.update() and is released by the
\* holdDuration-th: its velocity is then (cos, sin)(ejectAngle) * ejectForce,
\* its held flag is false and the kicker holds no body.
C2_Step ==
    (kicker.hasBall /\ last'.op = "Kicker.update") =>
        LET i == kicker.capturedBall
        IN  IF hist'.kcalls < KickerHoldDuration
            THEN /\ kicker'.hasBall
                 /\ kicker'.capturedBall = i
                 /\ balls'[i].isHeld
            ELSE /\ hist'.kcalls = KickerHoldDuration
                 /\ ~kicker'.hasBall
                 /\ kicker'.capturedBall = NoBall
                 /\ ~balls'[i].isHeld
                 /\ balls'[i].vx * Scale = Cos(kicker.ejectAngle) * kicker.ejectForce
                 /\ balls'[i].vy * Scale = Sin(kicker.ejectAngle) * kicker.ejectForce

C2_ReleasedOnHoldDurationthUpdate == [][C2_Step]_vars

C2_Witness ==
    /\ last.op = "Kicker.update"
    /\ hist.kcalls = KickerHoldDuration
    /\ ~kicker.hasBall
    /\ \E i \in BallIds :
          /\ ~balls[i].isHeld
          /\ balls[i].vx = 0
          /\ balls[i].vy = -KickerEjectForce

\* C3: checkCollision of an empty kicker with a body closer than its radius
\* stops the body, centres it on the kicker, marks it held, starts the hold
\* countdown at holdDuration and returns the kicker's point value.
C3_Step ==
    (/\ last'.op = "Kicker.checkCollision"
     /\ ~kicker.hasBall
     /\ InsideKicker(kicker, balls[last'.arg])) =>
        LET i == last'.arg
        IN  /\ balls'[i].vx = 0
            /\ balls'[i].vy = 0
            /\ balls'[i].x = kicker'.x
            /\ balls'[i].y = kicker'.y
            /\ balls'[i].isHeld
            /\ kicker'.hasBall
            /\ kicker'.holdTimer = KickerHoldDuration
            /\ ret' = RetNum(KickerPoints)

C3_CaptureStopsAndCentresBody == [][C3_Step]_vars

C3_Witness ==
    /\ last.op = "Kicker.checkCollision"
    /\ ret = RetNum(KickerPoints)
    /\ kicker.hasBall
    /\ kicker.holdTimer = KickerHoldDuration
    /\ hist.frames[last.arg] > 0
    /\ balls[last.arg].isHeld
    /\ balls[last.arg].x = kicker.x
    /\ balls[last.arg].y = kicker.y

\* ------------------------------------------------------------------------
\* Claims about the rollover
\* ------------------------------------------------------------------------

\* the ball's centre is strictly inside the lane
StrictlyInsideLane(b) ==
    /\ RolloverX < b.x
    /\ b.x < RolloverX + RolloverWidth
    /\ RolloverY < b.y
    /\ b.y < RolloverY + RolloverHeight

\* C4 as stated: a check with the body inside fires when the rollover has not
\* fired yet or a check has seen the body outside since it last fired, and
\* returns 0 otherwise; a check with the body outside returns 0.
C4_Step ==
    (last'.op = "Rollover.checkCollision") =>
        IF StrictlyInsideLane(balls'[1]) /\ (hist.fires = 0 \/ hist.seenOutside)
        THEN ret' = RetNum(RolloverPoints)
        ELSE ret' = RetNum(0)

C4_RefiresOnlyAfterSeenOutside == [][C4_Step]_vars

\* C4 as amended: reset() re-arms the rollover too.
C4_AmendedStep ==
    (last'.op = "Rollover.checkCollision") =>
        IF /\ StrictlyInsideLane(balls'[1])
           /\ (hist.fires = 0 \/ hist.seenOutside \/ hist.resetCalled)
        THEN ret' = RetNum(RolloverPoints)
        ELSE ret' = RetNum(0)

C4_RefiresOnlyAfterSeenOutsideOrReset == [][C4_AmendedStep]_vars

\* the rollover has fired, held its fire while the body stayed, seen the body
\* leave and fired again
C4_Witness ==
    /\ last.op = "Rollover.checkCollision"
    /\ ret = RetNum(RolloverPoints)
    /\ hist.fires = 2
    /\ ~hist.everReset
    /\ rollover.wasTriggered

\* ------------------------------------------------------------------------
\* Claims about the flipper
\* ------------------------------------------------------------------------

\* ceil(|activeAngle - restAngle| / flipSpeed)
FlipBound(f) == (Abs(f.activeAngle - f.restAngle) + f.flipSpeed - 1) \div f.flipSpeed

\* C5: from its rest angle and kept activated, each update() moves the
\* flipper's angle toward the active angle and never past it, the angle is
\* the active angle after at most ceil(|activeAngle - restAngle| / flipSpeed)
\* calls, and it stays there.
C5_Step ==
    (last'.op = "Flipper.update" /\ hist.run >= 0) =>
        /\ Abs(flipper.activeAngle - flipper'.angle)
              <= Abs(flipper.activeAngle - flipper.angle)
        /\ (flipper.activeAngle - flipper.angle)
              * (flipper.activeAngle - flipper'.angle) >= 0
        /\ flipper.angle # flipper.activeAngle => flipper'.angle # flipper.angle
        /\ flipper.angle = flipper.activeAngle => flipper'.angle = flipper.activeAngle
        /\ hist'.run >= FlipBound(flipper) => flipper'.angle = flipper.activeAngle

C5_FlipReachesActiveAngle == [][C5_Step]_vars

C5_Witness ==
    /\ last.op = "Flipper.update"
    /\ hist.run = FlipBound(flipper)
    /\ flipper.isActivated
    /\ flipper.angle = flipper.activeAngle
    /\ flipper.angularVelocity # 0

\* C6 as stated: after every update() the angular velocity is zero exactly
\* when the angle equals the target the activated flag selects.
C6_ZeroVelocityIffAtTarget ==
    last.op = "Flipper.update" =>
        (flipper.angularVelocity = 0 <=> flipper.angle = FlipperTarget(flipper))

\* C6 as amended: after every update() a zero angular velocity implies that
\* the angle equals the target, and an update() that finds the angle at the
\* target leaves the angular velocity zero; an update() that finds the angle
\* further than the snap distance from the target leaves the step it took as
\* angular velocity, also when that step arrives at the target.
C6_AmendedStep ==
    (last'.op = "Flipper.update") =>
        /\ flipper'.angularVelocity = 0 =>
              flipper'.angle = FlipperTarget(flipper')
        /\ flipper.angle = FlipperTarget(flipper) =>
              flipper'.angularVelocity = 0 /\ flipper'.angle = flipper.angle
        /\ Abs(FlipperTarget(flipper) - flipper.angle) > FlipperSnap =>
              /\ flipper'.angularVelocity = flipper'.angle - flipper.angle
              /\ flipper'.angularVelocity # 0

C6_ZeroVelocityOnlyAtTarget == [][C6_AmendedStep]_vars

\* the flipper has arrived at the active angle and a further update() has
\* zeroed its angular velocity
C6_Witness ==
    /\ last.op = "Flipper.update"
    /\ hist.run > FlipBound(flipper)
    /\ flipper.angularVelocity = 0
    /\ flipper.angle = flipper.activeAngle

\* ------------------------------------------------------------------------
\* Claims about the plunger
\* ------------------------------------------------------------------------

\* C7: release() while charging returns velocity = -(minLaunchVelocity +
\* (maxLaunchVelocity - minLaunchVelocity) * charge) and power = charge and
\* leaves the plunger with charge 0 and not charging; after startCharge() and
\* 25 update() calls it returns velocity -20 and power 0.5.
C7_Step ==
    (last'.op = "Plunger.release" /\ plunger.isCharging) =>
        /\ ret'.kind = "object"
        /\ ret'.power = plunger.power
        /\ ret'.velocity * Scale =
              -(PlungerMinLaunchVelocity * Scale
                + (PlungerMaxLaunchVelocity - PlungerMinLaunchVelocity) * plunger.power)
        /\ plunger'.power = 0
        /\ ~plunger'.isCharging
        /\ hist.ticks = 25 => ret'.velocity = -20000 /\ ret'.power = 500

C7_ReleaseVelocityFromCharge == [][C7_Step]_vars

C7_Witness ==
    /\ last.op = "Plunger.release"
    /\ ret = RetObj(-20000, 500)
    /\ plunger.power = 0
    /\ ~plunger.isCharging

\* C8: the charge level stays within [0, 1]; startCharge() sets it to 0 and
\* sets charging, update() while charging raises it by chargeSpeed but never
\* above 1, update() while not charging leaves it unchanged.
C8_Step ==
    /\ 0 <= plunger.power /\ plunger.power <= Scale
    /\ 0 <= plunger'.power /\ plunger'.power <= Scale
    /\ last'.op = "Plunger.startCharge" =>
          plunger'.power = 0 /\ plunger'.isCharging
    /\ (last'.op = "Plunger.update" /\ plunger.isCharging) =>
          /\ plunger.power + PlungerChargeSpeed <= Scale =>
                plunger'.power = plunger.power + PlungerChargeSpeed
          /\ plunger.power + PlungerChargeSpeed > Scale => plunger'.power = Scale
    /\ (last'.op = "Plunger.update" /\ ~plunger.isCharging) =>
          plunger'.power = plunger.power

C8_ChargeWithinUnitInterval == [][C8_Step]_vars

\* the charge has reached the cap and a further update() has left it there
C8_Witness ==
    /\ last.op = "Plunger.update"
    /\ plunger.isCharging
    /\ plunger.power = Scale
    /\ hist.ticks = MaxTicks

\* ------------------------------------------------------------------------
\* Claims about the bumper
\* ------------------------------------------------------------------------

\* the ball's centre is closer to the bumper's centre than the sum of the radii
OverlapsBumper(bu, b) ==
    /\ Abs(b.x - bu.x) < bu.radius + b.radius
    /\ Abs(b.y - bu.y) < bu.radius + b.radius
    /\ (b.x - bu.x) * (b.x - bu.x) + (b.y - bu.y) * (b.y - bu.y)
          < (bu.radius + b.radius) * (bu.radius + b.radius)

\* the ball's velocity has a positive component along the line from the
\* bumper's centre to the ball's
MovesAwayFromBumper(bu, b) == b.vx * (b.x - bu.x) + b.vy * (b.y - bu.y) > 0

\* the ball of the scenario: radius 8 at (200, 150) with velocity (0, 5)
ScenarioBall == [NewBall(200000, 150000, 8000) EXCEPT !.vy = 5000]

\* C9 as stated: after one step of the scenario the ball is at least 38 from
\* the bumper's centre and its velocity points away from it.
C9_AwayAfterOneStep ==
    (hist.start = ScenarioBall /\ hist.steps = 1) =>
        /\ ~OverlapsBumper(bumper, balls[1])
        /\ MovesAwayFromBumper(bumper, balls[1])

\* C9 as amended: after every step of the scenario the ball is at least 38
\* from the bumper's centre; the first two steps make no contact and leave
\* the ball moving toward the bumper; the third step is the first in which
\* the bumper's check detects contact, and after it the ball's velocity
\* points away from the bumper's centre.
C9_AwayAfterFirstContact ==
    hist.start = ScenarioBall =>
        /\ ~OverlapsBumper(bumper, balls[1])
        /\ hist.steps < 3 =>
              /\ hist.hits = 0
              /\ ~MovesAwayFromBumper(bumper, balls[1])
        /\ hist.steps = 3 =>
              /\ hist.hits = 1
              /\ ret = RetNum(BumperPoints)
              /\ MovesAwayFromBumper(bumper, balls[1])

C9_Witness ==
    /\ hist.start = ScenarioBall
    /\ hist.steps = 3
    /\ hist.hits = 1
    /\ balls[1].x = 200000
    /\ balls[1].y = 162000
    /\ balls[1].vx = 0
    /\ balls[1].vy = -15000
    /\ bumper.isLit

\* C10: when checkCollision detects contact (0 < distance < sum of the radii)
\* the ball's velocity afterwards is bounceForce times the unit vector from
\* the bumper's centre to the ball, whatever it was before, the distance
\* afterwards is the sum of the radii, a repeated check reports no contact,
\* and the call returns the bumper's points.
C10_Step ==
    (/\ last'.op = "Bumper.checkCollision"
     /\ OverlapsBumper(bumper, balls[1])
     /\ (balls[1].x # bumper.x \/ balls[1].y # bumper.y)) =>
        LET dx == balls[1].x - bumper.x
            dy == balls[1].y - bumper.y
            ex == balls'[1].x - bumper.x
            ey == balls'[1].y - bumper.y
            sum == bumper.radius + balls[1].radius
            vx == balls'[1].vx
            vy == balls'[1].vy
        IN  /\ vx * vx + vy * vy = BumperBounceForce * BumperBounceForce
            /\ vx * dy = vy * dx
            /\ vx * dx + vy * dy > 0
            /\ ex * ex + ey * ey = sum * sum
            /\ ex * dy = ey * dx
            /\ ex * dx + ey * dy > 0
            /\ BumperCheckResult(bumper', balls'[1]) = 0
            /\ ret' = RetNum(BumperPoints)

CheckCollisionCalled ==
    last.op \in {"Wall.checkCollision", "Flipper.checkCollision",
                 "Bumper.checkCollision", "Slingshot.checkCollision",
                 "Target.checkCollision", "Spinner.checkCollision",
                 "Rollover.checkCollision", "Kicker.checkCollision"}

\* the ball, where the last checkCollision found it, was in contact with the
\* element: closer to it than the ball's radius or, for the rollover and the
\* kicker, with its centre inside the element
InContact ==
    CASE hist.element = "Wall" ->
           LET w == TestWalls[last.arg]
           IN  IF WallLengthSq(w) = 0
               THEN magnitude(hist.placed.x - w.x1, hist.placed.y - w.y1)
                       < hist.placed.radius
               ELSE WallDist(w, hist.placed) < hist.placed.radius
      [] hist.element = "Flipper" ->
           \E i \in 1..4 :
              EdgeDist(FlipperEdge(FlipperCorners(flipper), i), hist.placed)
                 < hist.placed.radius
      [] hist.element = "Bumper" ->
           magnitude(hist.placed.x - bumper.x, hist.placed.y - bumper.y)
              < bumper.radius + hist.placed.radius
      [] hist.element = "Slingshot" ->
           \E i \in 1..3 :
              WallDist(NewWall(slingshot.vertices[i].x, slingshot.vertices[i].y,
                               slingshot.vertices[(i % 3) + 1].x,
                               slingshot.vertices[(i % 3) + 1].y), hist.placed)
                 < hist.placed.radius
      [] hist.element = "Target" ->
           magnitude(hist.placed.x - Max(target.x, Min(hist.placed.x, target.x + target.width)),
                     hist.placed.y - Max(target.y, Min(hist.placed.y, target.y + target.height)))
              < hist.placed.radius
      [] hist.element = "Spinner" ->
           magnitude(hist.placed.x - spinner.x, hist.placed.y - spinner.y)
              < spinner.width \div 2 + hist.placed.radius
      [] hist.element = "Rollover" ->
           /\ hist.placed.x > rollover.x
           /\ hist.placed.x < rollover.x + rollover.width
           /\ hist.placed.y > rollover.y
           /\ hist.placed.y < rollover.y + rollover.height
      [] hist.element = "Kicker" ->
           magnitude(hist.placed.x - kicker.x, hist.placed.y - kicker.y)
              < kicker.radius

ElementPoints ==
    CASE hist.element = "Bumper" -> bumper.points
      [] hist.element = "Slingshot" -> slingshot.points
      [] hist.element = "Target" -> target.points
      [] hist.element = "Spinner" -> spinner.points
      [] hist.element = "Rollover" -> rollover.points
      [] hist.element = "Kicker" -> kicker.points
      [] OTHER -> 0

C12_PositionAndVelocityStayNumbers ==
    /\ balls[1].x # NaN
    /\ balls[1].y # NaN
    /\ balls[1].vx # NaN
    /\ balls[1].vy # NaN

\* ------------------------------------------------------------------------
\* Claims about the ball
\* ------------------------------------------------------------------------

\* the component v is exactly zero or at least minSpeed in magnitude
ZeroOrMoving(v) == v = 0 \/ Abs(v) >= minSpeed

\* C13: right after every Ball.update on an active ball its speed is at most
\* maxSpeed and each component of its velocity is zero or at least minSpeed
\* in magnitude, whatever the velocity was before
C13_SpeedCappedAndNoSlowDrift ==
    (last.op = "Ball.update" /\ balls[1].active) =>
       /\ magnitude(balls[1].vx, balls[1].vy) <= maxSpeed
       /\ ZeroOrMoving(balls[1].vx)
       /\ ZeroOrMoving(balls[1].vy)

\* ------------------------------------------------------------------------
\* Claims about the target
\* ------------------------------------------------------------------------

C17_Step ==
    /\ target'.isLit = (hist'.hits % 2 = 1)
    /\ (last'.op = "Target.checkCollision" /\ InContact') =>
          /\ ret' = RetNum(target.points)
          /\ target'.isLit = ~target.isLit
          /\ hist'.hits = hist.hits + 1
    /\ (last'.op = "Target.checkCollision" /\ ~InContact') =>
          /\ ret' = RetNum(0)
          /\ target'.isLit = target.isLit
          /\ hist'.hits = hist.hits
    /\ last'.op = "Target.update" => target'.isLit = target.isLit

\* C17: every contact with a target toggles its lit state and returns its
\* points, so the target is lit after an odd number of hits since the last
\* reset() and unlit after an even number; update() never changes the lit
\* state
C17_LitIffOddNumberOfHits == [][C17_Step]_vars

\* the second hit since the last reset has turned the target off again
C17_Witness ==
    /\ last.op = "Target.checkCollision"
    /\ InContact
    /\ hist.hits = 2
    /\ ~target.isLit
    /\ ret = RetNum(target.points)

\* ------------------------------------------------------------------------
\* Claims about the slingshot
\* ------------------------------------------------------------------------

\* the normal of edge i points away from the corner that is not on edge i
PointsOutward(s, i) ==
    s.edges[i].normal.x * (s.vertices[((i + 1) % 3) + 1].x - s.edges[i].p1.x)
       + s.edges[i].normal.y * (s.vertices[((i + 1) % 3) + 1].y - s.edges[i].p1.y)
       < 0

\* C19: of a left and of a right slingshot, each of the three edge normals
\* points outward, away from the corner not on that edge
C19_NormalsPointOutward == \A i \in 1..3 : PointsOutward(slingshot, i)

\* ------------------------------------------------------------------------
\* Claims about the spinner
\* ------------------------------------------------------------------------

\* C20: spinsCount is the number of full rotations, multiples of 2 PI, that
\* the spinner has turned through since it was built
C20_SpinsCountIsFullRotations ==
    spinner.spinsCount = hist.turned \div (2 * Pi)

\* ------------------------------------------------------------------------
\* Claims about the game session
\* ------------------------------------------------------------------------

\* the step is a frame of the game loop
IsFrame == hist'.frames # hist.frames

\* the ball is in play: there is one and it is not in the plunger lane
BallInPlay(g) == g.ball # NullBall /\ ~g.ballInPlunger

\* the methods called in calls and the elements they are called on
CallNames(calls) == [k \in DOMAIN calls |-> <<calls[k].op, calls[k].n>>]

\* the calls of a step with the ball in play, in the order claimed
StepOrder ==
    <<<<"ball.update", 1>>>>
    \o [i \in 1..Len(TableWalls) |-> <<"wall.checkCollision", i>>]
    \o <<<<"leftFlipper.checkCollision", 1>>, <<"rightFlipper.checkCollision", 1>>>>
    \o [i \in 1..Len(NewGame.bumpers) |-> <<"bumper.checkCollision", i>>]
    \o [i \in 1..Len(NewGame.slingshots) |-> <<"slingshot.checkCollision", i>>]
    \o [i \in 1..Len(NewGame.targets) |-> <<"target.checkCollision", i>>]
    \o <<<<"drain test", 1>>, <<"leftFlipper.update", 1>>, <<"rightFlipper.update", 1>>>>
    \o [i \in 1..Len(NewGame.bumpers) |-> <<"bumper.update", i>>]
    \o [i \in 1..Len(NewGame.slingshots) |-> <<"slingshot.update", i>>]
    \o [i \in 1..Len(NewGame.targets) |-> <<"target.update", i>>]

\* the flipper collision checks of calls were made on flippers with the
\* angles and angular velocities of updated
FlippersAsUpdated(calls, updated) ==
    \A k \in DOMAIN calls :
        /\ calls[k].op = "leftFlipper.checkCollision" =>
              <<calls[k].angle, calls[k].angularVelocity>> = updated.left
        /\ calls[k].op = "rightFlipper.checkCollision" =>
              <<calls[k].angle, calls[k].angularVelocity>> = updated.right

C14_Step ==
    (IsFrame /\ game.state = "PLAYING" /\ BallInPlay(game)) =>
        /\ CallNames(game'.calls) = StepOrder
        /\ FlippersAsUpdated(game'.calls, hist.updated)

\* C14: a frame with the ball in play integrates the ball, checks it against
\* every wall, the left flipper, the right flipper, the bumpers, the
\* slingshots and the targets, tests the drain and then updates the
\* elements, in this order; the flipper checks are made on the angle and
\* angular velocity the previous frame's update() left
C14_StepOrderIsFixed == [][C14_Step]_vars

\* a frame with the ball in play has checked it against a turning left
\* flipper
C14_Witness ==
    /\ last.op = "Game.gameLoop"
    /\ CallNames(game.calls) = StepOrder
    /\ \E k \in DOMAIN game.calls :
          /\ game.calls[k].op = "leftFlipper.checkCollision"
          /\ game.calls[k].angularVelocity # 0

\* the number of calls of op on element n in calls
CallCount(calls, c) ==
    Cardinality({k \in DOMAIN calls : <<calls[k].op, calls[k].n>> = c})

C15_Step ==
    (IsFrame /\ game.state \in {"PLAYING", "BALL_LOST"}) =>
        \A k \in DOMAIN UpdateCalls(game) :
            CallCount(game'.calls, CallNames(UpdateCalls(game))[k]) = 1

\* C15: in every frame of the game loop made in state PLAYING or BALL_LOST,
\* update() is called exactly once on each flipper, bumper, slingshot and
\* target
C15_ElementsUpdatedOncePerFrame == [][C15_Step]_vars

\* the calls that integrate, collide or drain the ball
BallCalls ==
    {"ball.update", "wall.checkCollision", "leftFlipper.checkCollision",
     "rightFlipper.checkCollision", "bumper.checkCollision",
     "slingshot.checkCollision", "target.checkCollision", "drain test"}

\* the step is the release of the space key in play: it calls launchBall
IsLaunch == last'.op = "keyup" /\ last'.arg = " " /\ game.state = "PLAYING"

C16_Step ==
    game.ballInPlunger =>
        /\ IsFrame => \A k \in DOMAIN game'.calls : game'.calls[k].op \notin BallCalls
        /\ game'.ball.x = game.ball.x /\ game'.ball.y = game.ball.y
        /\ IF IsLaunch
           THEN ~game'.ballInPlunger
           ELSE game'.ballInPlunger /\ game'.ball = game.ball

\* C16: while ballInPlunger is true a frame makes no integration, collision
\* or drain call, no step moves the ball, and no step but launchBall changes
\* its velocity or clears ballInPlunger
C16_BallRestsInPlungerLane == [][C16_Step]_vars

\* the ball has rested in the lane over a frame and has then been launched
C16_Witness ==
    /\ last.op = "keyup" /\ last.arg = " "
    /\ hist.frames > 0
    /\ game.ball # NullBall /\ ~game.ballInPlunger
    /\ game.ball.vy = DefaultLaunchVelocity
    /\ game.ball.y = 550 * Scale

\* the targets of g that are lit
LitTargets(g) == {j \in DOMAIN g.targets : g.targets[j].isLit}

\* the ball of g, once integrated, touches target i, the only unlit one
LightsLastTarget(g, i) ==
    /\ g.state = "PLAYING" /\ BallInPlay(g)
    /\ LitTargets(g) = DOMAIN g.targets \ {i}
    /\ TargetHits(g.targets[i], BallUpdate(g.ball, NoBounds))

\* the score after the target's points and then the bonus are added to
\* score, each times the multiplier in force when it is added
ScoreWithBonus(score, multiplier) ==
    LET raised(s, m) ==
            IF s \div MultiplierStep + 1 > m /\ m < MaxMultiplier
            THEN Min(s \div MultiplierStep + 1, MaxMultiplier) ELSE m
        bonus(s) == s + AllTargetsBonus * raised(s, multiplier)
    IN  bonus(score + TargetPoints * multiplier)

C18_Step ==
    IsFrame =>
        /\ LitTargets(game') # DOMAIN game'.targets
        /\ \A i \in DOMAIN game.targets :
              LightsLastTarget(game, i) =>
                  /\ LitTargets(game') = {}
                  /\ game'.score = ScoreWithBonus(game.score, game.multiplier)

\* C18: a frame in which the ball hits the last unlit target adds the
\* target's points and then, once, 1000 points times the multiplier in force
\* at that moment, and leaves every target unlit; at the end of every frame
\* at least one target is unlit
C18_AllTargetsBonusOnceAndReset == [][C18_Step]_vars

\* the bonus has been awarded at the doubled multiplier the target's own
\* points brought
C18_Witness ==
    /\ last.op = "Game.gameLoop"
    /\ hist.frames = 1
    /\ LitTargets(game) = {}
    /\ game.score = 4950 + TargetPoints + 2 * AllTargetsBonus

\* ------------------------------------------------------------------------
\* Claims about circlePolygonCollision
\* ------------------------------------------------------------------------

\* the distance from the ball's centre to the closest point of edge i
PolygonEdgeDist(vs, i, b) ==
    WallDist(NewWall(vs[i].x, vs[i].y,
                     vs[(i % Len(vs)) + 1].x,
                     vs[(i % Len(vs)) + 1].y), b)

\* the edges in contact with the ball: closer than its radius, and not under
\* its centre
EdgesInContact(vs, b) ==
    {i \in DOMAIN vs : PolygonEdgeDist(vs, i, b) < b.radius
                       /\ PolygonEdgeDist(vs, i, b) > 0}

\* C21: circlePolygonCollision returns null exactly when no edge is in
\* contact with the ball, and otherwise the contact of an edge in contact
\* whose closest point is nearest to the ball's centre
C21_ContactOfNearestEdge ==
    hist.called =>
        /\ hist.collision.hit <=> EdgesInContact(hist.vertices, hist.placed) # {}
        /\ hist.collision.hit =>
              \A i \in EdgesInContact(hist.vertices, hist.placed) :
                  hist.placed.radius - hist.collision.depth
                      <= PolygonEdgeDist(hist.vertices, i, hist.placed)

\* the part of C21 that the code keeps: null exactly when no edge is in
\* contact, and otherwise the contact of an edge in contact
C21_ContactIffSomeEdgeInContact ==
    hist.called =>
        /\ hist.collision.hit <=> EdgesInContact(hist.vertices, hist.placed) # {}
        /\ hist.collision.hit =>
              \E i \in EdgesInContact(hist.vertices, hist.placed) :
                  hist.placed.radius - hist.collision.depth
                      = PolygonEdgeDist(hist.vertices, i, hist.placed)

\* ------------------------------------------------------------------------
\* Claims about a kicker that holds a ball
\* ------------------------------------------------------------------------

C22_Step ==
    (kicker.hasBall /\ last'.op = "Kicker.checkCollision") =>
        /\ ret' = RetNum(0)
        /\ kicker' = kicker
        /\ balls' = balls

\* C22: while the kicker holds a ball, checkCollision with any ball returns
\* 0 and changes neither the kicker (no second capture, the countdown is
\* not restarted) nor any ball
C22_HoldingKickerIgnoresBodies == [][C22_Step]_vars

\* checkCollision has been called with a ball inside the capture radius
\* that is not the one the kicker holds, part of the way through the hold
C22_Witness ==
    /\ last.op = "Kicker.checkCollision"
    /\ ret = RetNum(0)
    /\ kicker.hasBall
    /\ kicker.capturedBall # last.arg
    /\ kicker.holdTimer < KickerHoldDuration
    /\ InsideKicker(kicker, balls[last.arg])
    /\ ~balls[last.arg].isHeld

\* hasBall, capturedBall # null and holdTimer > 0 are equivalent; the
\* captured ball is held; a held ball is the captured one
KickerConsistent ==
    /\ kicker.hasBall <=> kicker.capturedBall # NoBall
    /\ kicker.hasBall <=> kicker.holdTimer > 0
    /\ kicker.capturedBall # NoBall => balls[kicker.capturedBall].isHeld
    /\ \A i \in BallIds : balls[i].isHeld => kicker.capturedBall = i

\* C24: in every state reached by checkCollision and update calls, hasBall,
\* capturedBall # null and holdTimer > 0 are equivalent, the captured ball
\* has its held flag set and a ball's held flag is set only while the kicker
\* references it; and a captured ball is ejected in the end when update()
\* keeps being called
C24_KickerHoldsConsistentlyAndEjects ==
    /\ []KickerConsistent
    /\ kicker.hasBall ~> ~kicker.hasBall

\* the second ball is held, one update() before it is ejected
C24_Witness ==
    /\ kicker.hasBall
    /\ kicker.capturedBall = 2
    /\ kicker.holdTimer = 1
    /\ balls[2].isHeld
    /\ ~balls[1].isHeld

\* ------------------------------------------------------------------------
\* Claims about the range of a flipper
\* ------------------------------------------------------------------------

\* the angle is between restAngle and activeAngle
FlipperInRange(f) ==
    /\ Min(f.restAngle, f.activeAngle) <= f.angle
    /\ f.angle <= Max(f.restAngle, f.activeAngle)

\* the distance from the angle to the target the activated flag selects
FlipperDistance(f) == Abs(FlipperTarget(f) - f.angle)

C23_Step ==
    /\ FlipperInRange(flipper) /\ FlipperInRange(flipper')
    /\ last'.op = "Flipper.update" =>
          /\ \/ FlipperDistance(flipper') < FlipperDistance(flipper)
             \/ FlipperDistance(flipper) = 0 /\ FlipperDistance(flipper') = 0
          /\ Abs(flipper'.angularVelocity)
                <= IF flipper'.isActivated THEN flipper'.flipSpeed
                                           ELSE flipper'.returnSpeed

\* C23: under any order of activate(), deactivate() and update() the angle
\* stays between restAngle and activeAngle; update() brings the angle
\* strictly closer to the selected target unless it is on it already; and
\* after update() the angular velocity is at most flipSpeed in magnitude
\* when activated and at most returnSpeed when not
C23_FlipperStaysInRangeAndApproaches == [][C23_Step]_vars

\* update() has moved a flipper that was turned back part of the way
\* through a flip
C23_Witness ==
    /\ last.op = "Flipper.update"
    /\ ~flipper.isActivated
    /\ flipper.angularVelocity # 0
    /\ Abs(flipper.angularVelocity) < flipper.returnSpeed
    /\ flipper.angle = flipper.restAngle

\* ------------------------------------------------------------------------
\* Claims about the session: the ball, the balls left, and a lost ball
\* ------------------------------------------------------------------------

\* C25: in every reachable state of the session, PLAYING or PAUSED implies
\* that a ball exists, START, BALL_LOST or GAME_OVER implies that there is
\* none, and ballInPlunger implies that a ball exists
C25_BallExistsAsStateSays ==
    /\ game.state \in {"PLAYING", "PAUSED"} => game.ball # NullBall
    /\ game.state \in {"START", "BALL_LOST", "GAME_OVER"} => game.ball = NullBall
    /\ game.ballInPlunger => game.ball # NullBall

\* a frame has just drained a ball with balls left
C25_Witness ==
    /\ last.op = "Game.gameLoop"
    /\ game.state = "BALL_LOST" /\ game.ball = NullBall
    /\ hist.drains > 0 /\ hist.frames = 1

\* the space key starts a game
StartsGame ==
    /\ last'.op = "keydown" /\ last'.arg = " "
    /\ game.state \in {"START", "GAME_OVER"}

\* a frame drains the ball that was in play
Drains ==
    /\ IsFrame /\ game.state = "PLAYING"
    /\ game.ball # NullBall /\ ~game.ballInPlunger
    /\ game'.ball = NullBall

\* C26: the count of balls left is always in 0..3; it changes only by a
\* start (to 3) and by a drain (down by exactly 1, and the drained ball is
\* gone, so once per spawned ball); PLAYING, PAUSED or BALL_LOST implies at
\* least one ball left; and GAME_OVER is entered exactly when the count
\* reaches 0, on the third drain after start()
C26_Step ==
    /\ game'.balls \in 0..BallsPerGame
    /\ game'.balls # game.balls =>
          \/ StartsGame /\ game'.balls = BallsPerGame
          \/ Drains /\ game'.balls = game.balls - 1
    /\ Drains => game'.balls = game.balls - 1
    /\ StartsGame => game'.balls = BallsPerGame
    /\ game'.state \in {"PLAYING", "PAUSED", "BALL_LOST"} => game'.balls >= 1
    /\ (game'.state = "GAME_OVER" /\ game.state # "GAME_OVER")
          <=> (game'.balls = 0 /\ game.balls # 0)
    /\ game'.state # "START" => game'.balls = BallsPerGame - hist'.drains
    /\ (game'.state = "GAME_OVER" /\ game.state # "GAME_OVER")
          <=> (hist'.drains = BallsPerGame /\ hist.drains # BallsPerGame)

C26_BallsLeftCountsDrains == [][C26_Step]_vars

\* the last ball has just drained and the game is over
C26_Witness ==
    /\ last.op = "Game.gameLoop"
    /\ game.state = "GAME_OVER" /\ game.balls = 0
    /\ hist.drains = BallsPerGame

\* C27: a drain that leaves balls sets BALL_LOST; in BALL_LOST no key event
\* and no frame changes the state, the score or the ball count, or spawns a
\* ball; the timer callback returns the session to PLAYING with exactly one
\* new ball at rest in the plunger lane; and a timer callback spawns no
\* ball when the state is not BALL_LOST
C27_Step ==
    /\ (Drains /\ game'.balls > 0) => game'.state = "BALL_LOST"
    /\ (game.state = "BALL_LOST" /\ last'.op # "timeout") =>
          /\ game'.state = game.state /\ game'.score = game.score
          /\ game'.balls = game.balls /\ game'.ball = NullBall
    /\ (game.state = "BALL_LOST" /\ last'.op = "timeout") =>
          /\ game'.state = "PLAYING"
          /\ game'.ball = NewBall(370 * Scale, 550 * Scale, 8 * Scale)
          /\ game'.ball.vx = 0 /\ game'.ball.vy = 0
          /\ game'.ballInPlunger /\ ~game'.plungerCharging
          /\ game'.balls = game.balls /\ game'.score = game.score
    /\ (game.state # "BALL_LOST" /\ last'.op = "timeout") =>
          /\ game'.ball = game.ball /\ game'.state = game.state

C27_LostBallWaitsForTimeout == [][C27_Step]_vars

\* the callback has spawned the next ball after a frame and a key event
\* passed in BALL_LOST
C27_Witness ==
    /\ last.op = "timeout"
    /\ game.state = "PLAYING" /\ game.ballInPlunger
    /\ game.ball = NewBall(370 * Scale, 550 * Scale, 8 * Scale)
    /\ hist.frames >= 2 /\ hist.keys = 1

\* ------------------------------------------------------------------------
\* Claims about charging the plunger and launching the ball
\* ------------------------------------------------------------------------

\* the plunger is being charged for the ball in the lane
Charging(g) == g.state = "PLAYING" /\ g.plungerCharging /\ g.ballInPlunger

\* C29: while the launch key is held (from the keydown that starts charging
\* to the keyup), the plunger's charge at the end of a frame is at least the
\* charge at the end of the frame before, also when further keydown events
\* of the key arrive in between
C29_Step ==
    (IsFrame /\ Charging(game) /\ Charging(game')) =>
        game'.plunger.power >= hist.charge

C29_ChargeNeverDecreasesWhileHeld == [][C29_Step]_vars

\* the ball leaves the plunger lane
LeavesLane == game.ballInPlunger /\ ~game'.ballInPlunger

\* C30: every launch sets the ball's vy to a value in [-30, -10], the
\* plunger's release velocity when it was charging and -15 when it was not;
\* a launch happens only in PLAYING with ballInPlunger true, and it leaves
\* ballInPlunger false and the plunger not charging
C30_Step ==
    /\ (IsLaunch /\ game.ballInPlunger) =>
          /\ game'.ball.vy >= -game.plunger.maxLaunchVelocity
          /\ game'.ball.vy <= -game.plunger.minLaunchVelocity
          /\ game'.ball.vy =
                IF game.plunger.isCharging
                THEN PlungerReleaseResult(game.plunger).velocity
                ELSE DefaultLaunchVelocity
          /\ ~game'.ballInPlunger
          /\ ~game'.plungerCharging /\ ~game'.plunger.isCharging
    /\ LeavesLane => IsLaunch /\ game.ball # NullBall
    /\ (game.ballInPlunger /\ game'.ballInPlunger) =>
          game'.ball.vy = game.ball.vy /\ game'.ball.vx = game.ball.vx

C30_LaunchVelocityInRange == [][C30_Step]_vars

\* the ball was launched after two frames of charging
C30_Witness ==
    /\ last.op = "keyup" /\ last.arg = " "
    /\ game.state = "PLAYING" /\ ~game.ballInPlunger
    /\ game.ball.vy = -(PlungerMinLaunchVelocity + 800)
    /\ ~game.plunger.isCharging

\* the ball was launched by the keyup of the key press that started the game
LaunchedAtDefault ==
    /\ last.op = "keyup" /\ last.arg = " "
    /\ game.state = "PLAYING" /\ ~game.ballInPlunger
    /\ game.ball.vy = DefaultLaunchVelocity

\* ------------------------------------------------------------------------
\* Claims about the score
\* ------------------------------------------------------------------------

\* min(floor(score / 5000) + 1, 10)
MultiplierOf(score) == Min(score \div MultiplierStep + 1, MaxMultiplier)

\* C28: after start() and after every addScore call the multiplier is
\* min(floor(score / 5000) + 1, 10); within a game neither the score nor the
\* multiplier decreases; the multiplier is in 1..10; addScore(points) raises
\* the score by points times the multiplier in force before the call; and
\* highScore is at least score
C28_Step ==
    /\ game'.multiplier = MultiplierOf(game'.score)
    /\ game'.multiplier \in 1..MaxMultiplier
    /\ game'.highScore >= game'.score
    /\ last'.op = "Game.addScore" =>
          /\ game'.score = game.score + last'.arg * game.multiplier
          /\ game'.score >= game.score
          /\ game'.multiplier >= game.multiplier
          /\ game'.highScore >= game.highScore

C28_MultiplierFollowsScore == [][C28_Step]_vars

\* an addScore call took the score from below 45000 to 50000 or more: the
\* multiplier went from 9 to 10, where floor(score / 5000) + 1 is 11
C28_Witness ==
    /\ last.op = "Game.addScore"
    /\ game.score \div MultiplierStep + 1 > MaxMultiplier
    /\ game.score - last.arg * (MaxMultiplier - 1) < (MaxMultiplier - 1) * MultiplierStep
    /\ game.multiplier = MaxMultiplier
    /\ game.highScore = game.score

====
